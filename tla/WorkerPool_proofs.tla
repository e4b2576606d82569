------------------------- MODULE WorkerPool_proofs -------------------------
(***************************************************************************)
(* Theorems about WorkerPool, for every set of jobs, every finite set of   *)
(* workers and every capacity of GJobQueue.                                *)
(***************************************************************************)
EXTENDS WorkerPool, TLAPS, FiniteSetTheorems

USE PoolAssumption
-----------------------------------------------------------------------------
\* The flow keeps its types and GJobQueue its capacity (every send and receive
\* of pool.go).
LEMMA InitType == Init => TypeOK
<1> SUFFICES ASSUME Init PROVE TypeOK
  OBVIOUS
<1>1. <<>> \in Seq(Jobs) /\ <<>> \in Seq(Workers) /\ Len(<<>>) = 0
  OBVIOUS
<1>2. MaxQueue >= 0
  OBVIOUS
<1>3. QED
  BY <1>1, <1>2 DEF Init, TypeOK, JobStates, WorkerStates, DispatcherStates

LEMMA NextType == TypeOK /\ [Next]_vars => TypeOK'
<1> SUFFICES ASSUME TypeOK, [Next]_vars PROVE TypeOK'
  OBVIOUS
<1> USE DEF TypeOK, JobStates, WorkerStates, DispatcherStates, flow, shop
<1>1. ASSUME NEW j \in Jobs, CallAddJob(j) PROVE TypeOK'
  BY <1>1 DEF CallAddJob, Place
<1>2. ASSUME NEW j \in Jobs, SendOnClosed(j) PROVE TypeOK'
  BY <1>2 DEF SendOnClosed
<1>3. ASSUME NEW j \in Jobs, Enqueue(j) PROVE TypeOK'
  BY <1>3 DEF Enqueue, Place, HasRoom
<1>4. ASSUME NEW j \in Jobs, HandOver(j) PROVE TypeOK'
  BY <1>4 DEF HandOver, Place
<1>5. ASSUME CallCloseWorkFlow PROVE TypeOK'
  BY <1>5 DEF CallCloseWorkFlow
<1>6. ASSUME Signal PROVE TypeOK'
  BY <1>6 DEF Signal
<1>7. ASSUME Park PROVE TypeOK'
  BY <1>7 DEF Park
<1>8. ASSUME CloseQueue PROVE TypeOK'
  BY <1>8 DEF CloseQueue
<1>9. ASSUME Receive PROVE TypeOK'
  BY <1>9 DEF Receive, Place, AfterReceive
<1>10. ASSUME NEW j \in Jobs, SpawnHandler(j) PROVE TypeOK'
  BY <1>10 DEF SpawnHandler, Place
<1>11. ASSUME StopWorkers PROVE TypeOK'
  BY <1>11 DEF StopWorkers, ToStop
<1>12. ASSUME ReportClosed PROVE TypeOK'
  BY <1>12 DEF ReportClosed
<1>13. ASSUME NEW j \in Jobs, TakeBench(j) PROVE TypeOK'
  <2>1. Head(benchQueue) \in Workers /\ Tail(benchQueue) \in Seq(Workers)
    BY <1>13 DEF TakeBench
  <2>2. QED BY <2>1, <1>13 DEF TakeBench, Place, AfterReceive
<1>14. ASSUME NEW j \in Jobs, Deliver(j) PROVE TypeOK'
  BY <1>14 DEF Deliver, Place
<1>15. ASSUME NEW j \in Jobs, Play(j) PROVE TypeOK'
  BY <1>15 DEF Play, Place, Loop
<1>16. ASSUME NEW w \in Workers, Register(w) PROVE TypeOK'
  BY <1>16 DEF Register
<1>17. ASSUME NEW w \in Workers, Finish(w) PROVE TypeOK'
  BY <1>17 DEF Finish
<1>18. CASE UNCHANGED vars
  BY <1>18 DEF vars
<1>19. QED
  BY <1>1, <1>2, <1>3, <1>4, <1>5, <1>6, <1>7, <1>8, <1>9, <1>10, <1>11,
     <1>12, <1>13, <1>14, <1>15, <1>16, <1>17, <1>18
  DEF Next, Send, Dispatch, Handle, Work

THEOREM TypeCorrect == Spec => []TypeOK
  BY InitType, NextType, PTL DEF Spec
-----------------------------------------------------------------------------
\* What a receive and a send do to the entries of a buffer.
LEMMA TailEntries ==
  ASSUME NEW S, NEW q \in Seq(S), q # <<>>
  PROVE  /\ Tail(q) \in Seq(S)
         /\ DOMAIN q = 1..Len(q) /\ Len(q) \in Nat \ {0}
         /\ DOMAIN Tail(q) = 1..(Len(q) - 1)
         /\ Head(q) = q[1] /\ Head(q) \in S
         /\ \A i \in DOMAIN Tail(q) : Tail(q)[i] = q[i + 1]
  OBVIOUS

LEMMA AppendEntries ==
  ASSUME NEW S, NEW q \in Seq(S), NEW e \in S
  PROVE  /\ Append(q, e) \in Seq(S)
         /\ DOMAIN q = 1..Len(q) /\ Len(q) \in Nat
         /\ DOMAIN Append(q, e) = 1..(Len(q) + 1)
         /\ \A i \in DOMAIN q : Append(q, e)[i] = q[i]
         /\ Append(q, e)[Len(q) + 1] = e
  OBVIOUS
-----------------------------------------------------------------------------
(***************************************************************************)
(* The jobs between AddJob and their handlers.  GJobQueue holds exactly    *)
(* the queued jobs, each once, and Dispatch has at most one in its hands.  *)
(***************************************************************************)
QueueInv ==
  /\ \A i \in DOMAIN jobQueue : job[jobQueue[i]] = "queued"
  /\ \A i, k \in DOMAIN jobQueue : jobQueue[i] = jobQueue[k] => i = k
  /\ \A j \in Jobs : job[j] = "queued" => \E i \in DOMAIN jobQueue : jobQueue[i] = j
  /\ \A j \in Jobs : job[j] = "taken" => dispatcher = "spawn"
  /\ \A j, k \in Jobs : job[j] = "taken" /\ job[k] = "taken" => j = k

LEMMA InitQueue == Init => QueueInv
<1> SUFFICES ASSUME Init PROVE QueueInv
  OBVIOUS
<1>1. DOMAIN jobQueue = {}
  BY DEF Init
<1>2. QED BY <1>1 DEF Init, QueueInv

\* A step that leaves GJobQueue and Dispatch alone and moves jobs only among the
\* other places.
LEMMA QueueFrame ==
  ASSUME QueueInv, TypeOK, jobQueue' = jobQueue,
         \A j \in Jobs : job'[j] = "taken" => dispatcher' = dispatcher,
         \A j \in Jobs : /\ job'[j] = "queued" <=> job[j] = "queued"
                         /\ job'[j] = "taken" <=> job[j] = "taken"
  PROVE  QueueInv'
<1>1. \A i \in DOMAIN jobQueue : jobQueue[i] \in Jobs
  BY DEF TypeOK
<1>2. QED BY <1>1 DEF QueueInv

LEMMA EnqueueStep ==
  ASSUME TypeOK, QueueInv, NEW j \in Jobs, Enqueue(j)
  PROVE  QueueInv'
<1> USE DEF TypeOK
<1>1. /\ jobQueue' = Append(jobQueue, j) /\ dispatcher' = dispatcher
      /\ job' = [job EXCEPT ![j] = "queued"] /\ job[j] = "calling"
  BY DEF Enqueue, Place
<1>2. /\ DOMAIN jobQueue = 1..Len(jobQueue) /\ Len(jobQueue) \in Nat
      /\ DOMAIN jobQueue' = 1..(Len(jobQueue) + 1)
      /\ \A i \in DOMAIN jobQueue : jobQueue'[i] = jobQueue[i]
      /\ jobQueue'[Len(jobQueue) + 1] = j
  BY <1>1, AppendEntries
<1>3. \A i \in DOMAIN jobQueue : jobQueue[i] \in Jobs /\ jobQueue[i] # j
  BY <1>1 DEF QueueInv
<1>4. \A i \in DOMAIN jobQueue' : i \in DOMAIN jobQueue \/ i = Len(jobQueue) + 1
  BY <1>2
<1>5. \A i, k \in DOMAIN jobQueue' : jobQueue'[i] = jobQueue'[k] => i = k
  BY <1>2, <1>3, <1>4 DEF QueueInv
<1>6. \A i \in DOMAIN jobQueue' : job'[jobQueue'[i]] = "queued"
  BY <1>1, <1>2, <1>3, <1>4 DEF QueueInv
<1>7. ASSUME NEW k \in Jobs, job'[k] = "queued"
      PROVE  \E i \in DOMAIN jobQueue' : jobQueue'[i] = k
  <2>1. CASE k = j
    BY <1>2, <2>1
  <2>2. CASE k # j
    <3>1. PICK i \in DOMAIN jobQueue : jobQueue[i] = k
      BY <1>1, <1>7, <2>2 DEF QueueInv
    <3>2. QED BY <1>2, <3>1
  <2>3. QED BY <2>1, <2>2
<1>8. QED BY <1>1, <1>5, <1>6, <1>7 DEF QueueInv

LEMMA ReceiveStep ==
  ASSUME TypeOK, QueueInv, Receive
  PROVE  QueueInv'
<1> DEFINE h == Head(jobQueue)
<1> USE DEF TypeOK
<1>1. /\ jobQueue' = Tail(jobQueue) /\ jobQueue # <<>>
      /\ job' = [job EXCEPT ![h] = "taken"]
      /\ dispatcher = "run" /\ dispatcher' = "spawn"
  BY DEF Receive, Place, AfterReceive
<1>2. /\ DOMAIN jobQueue = 1..Len(jobQueue) /\ Len(jobQueue) \in Nat \ {0}
      /\ DOMAIN jobQueue' = 1..(Len(jobQueue) - 1)
      /\ h = jobQueue[1] /\ h \in Jobs
      /\ \A i \in DOMAIN jobQueue' : jobQueue'[i] = jobQueue[i + 1]
  BY <1>1, TailEntries
<1>3. \A j \in Jobs : job[j] # "taken"
  BY <1>1 DEF QueueInv
<1>4. \A i \in DOMAIN jobQueue' : /\ i + 1 \in DOMAIN jobQueue
                                  /\ jobQueue'[i] \in Jobs /\ jobQueue'[i] # h
  BY <1>2 DEF QueueInv
<1>5. \A i, k \in DOMAIN jobQueue' : jobQueue'[i] = jobQueue'[k] => i = k
  BY <1>2, <1>4 DEF QueueInv
<1>6. \A i \in DOMAIN jobQueue' : job'[jobQueue'[i]] = "queued"
  BY <1>1, <1>2, <1>4 DEF QueueInv
<1>7. ASSUME NEW k \in Jobs, job'[k] = "queued"
      PROVE  \E i \in DOMAIN jobQueue' : jobQueue'[i] = k
  <2>1. k # h /\ job[k] = "queued"
    BY <1>1, <1>2, <1>7
  <2>2. PICK i \in DOMAIN jobQueue : jobQueue[i] = k
    BY <2>1 DEF QueueInv
  <2>3. i - 1 \in DOMAIN jobQueue' /\ (i - 1) + 1 = i
    BY <1>2, <2>1, <2>2
  <2>4. QED BY <1>2, <2>2, <2>3
<1>8. \A k \in Jobs : job'[k] = "taken" => k = h
  BY <1>1, <1>2, <1>3
<1>9. QED BY <1>1, <1>5, <1>6, <1>7, <1>8 DEF QueueInv

LEMMA NextQueue == TypeOK /\ QueueInv /\ [Next]_vars => QueueInv'
<1> SUFFICES ASSUME TypeOK, QueueInv, [Next]_vars PROVE QueueInv'
  OBVIOUS
<1> USE DEF flow, shop
<1>1. ASSUME NEW j \in Jobs, CallAddJob(j) PROVE QueueInv'
  BY <1>1, QueueFrame DEF CallAddJob, Place, TypeOK
<1>2. ASSUME NEW j \in Jobs, HandOver(j) PROVE QueueInv'
  <2>1. \A i \in DOMAIN jobQueue : jobQueue[i] \in Jobs /\ jobQueue[i] # j
    BY <1>2 DEF HandOver, TypeOK, QueueInv
  <2>2. \A k \in Jobs : job[k] # "taken"
    BY <1>2 DEF HandOver, QueueInv
  <2>3. QED BY <1>2, <2>1, <2>2 DEF HandOver, Place, TypeOK, QueueInv
<1>3. ASSUME NEW j \in Jobs, SpawnHandler(j) PROVE QueueInv'
  <2>1. \A i \in DOMAIN jobQueue : jobQueue[i] \in Jobs /\ jobQueue[i] # j
    BY <1>3 DEF SpawnHandler, TypeOK, QueueInv
  <2>2. QED BY <1>3, <2>1 DEF SpawnHandler, Place, TypeOK, QueueInv
<1>4. ASSUME Signal \/ Park \/ CloseQueue \/ StopWorkers \/ ReportClosed
      PROVE  QueueInv'
  <2>1. jobQueue' = jobQueue /\ job' = job /\ dispatcher # "spawn"
    BY <1>4 DEF Signal, SignalReaches, Park, CloseQueue, StopWorkers, ReportClosed
  <2>2. QED BY <2>1 DEF QueueInv
<1>5. ASSUME NEW j \in Jobs, TakeBench(j) \/ Deliver(j) \/ Play(j) PROVE QueueInv'
  BY <1>5, QueueFrame DEF TakeBench, Deliver, Play, Place, TypeOK
<1>6. ASSUME NEW w \in Workers, Register(w) \/ Finish(w) PROVE QueueInv'
  BY <1>6, QueueFrame DEF Register, Finish
<1>7. ASSUME CallCloseWorkFlow PROVE QueueInv'
  BY <1>7, QueueFrame DEF CallCloseWorkFlow
<1>8. ASSUME NEW j \in Jobs, SendOnClosed(j) PROVE QueueInv'
  BY <1>8, QueueFrame DEF SendOnClosed
<1>9. CASE UNCHANGED vars
  BY <1>9, QueueFrame DEF vars
<1>10. QED
  BY <1>1, <1>2, <1>3, <1>4, <1>5, <1>6, <1>7, <1>8, <1>9, EnqueueStep,
     ReceiveStep
  DEF Next, Send, Dispatch, Handle, Work
-----------------------------------------------------------------------------
(***************************************************************************)
(* The workbenches.  BenchAccounted is inductive only together with what   *)
(* it takes to hand a workbench back: a job that is being played is at a   *)
(* worker that plays, and no two jobs are at the same worker.              *)
(***************************************************************************)
PlayersBusy ==
  /\ \A j \in Jobs : job[j] = "playing" => worker[bench[j]] = "play"
  /\ \A j, k \in Jobs : /\ job[j] = "playing" /\ job[k] = "playing"
                        /\ bench[j] = bench[k]
                        => j = k

BenchInv == BenchAccounted /\ PlayersBusy

LEMMA InitBench == Init => BenchInv
<1> SUFFICES ASSUME Init PROVE BenchInv
  OBVIOUS
<1>1. DOMAIN benchQueue = {}
  BY DEF Init
<1>2. QED
  BY <1>1 DEF Init, BenchInv, BenchAccounted, BenchesDistinct, PlayersBusy,
              Queued, Held

\* A step that leaves the workbenches alone and moves jobs only among the places
\* before a handler has a workbench.
LEMMA BenchFrame ==
  ASSUME BenchInv,
         benchQueue' = benchQueue, bench' = bench, worker' = worker,
         \A j \in Jobs : /\ job'[j] = "offering" <=> job[j] = "offering"
                         /\ job'[j] = "playing" <=> job[j] = "playing"
  PROVE  BenchInv'
  BY DEF BenchInv, BenchAccounted, BenchesDistinct, PlayersBusy, Queued, Held

LEMMA TakeBenchStep ==
  ASSUME TypeOK, BenchInv, NEW j \in Jobs, TakeBench(j)
  PROVE  BenchInv'
<1> DEFINE b == Head(benchQueue)
<1> USE DEF TypeOK
<1>1. /\ benchQueue' = Tail(benchQueue) /\ worker' = worker
      /\ job' = [job EXCEPT ![j] = "offering"]
      /\ bench' = [bench EXCEPT ![j] = b]
      /\ job[j] = "waiting" /\ benchQueue # <<>>
  BY DEF TakeBench, Place, AfterReceive
<1>2. /\ DOMAIN benchQueue = 1..Len(benchQueue) /\ Len(benchQueue) \in Nat \ {0}
      /\ DOMAIN benchQueue' = 1..(Len(benchQueue) - 1)
      /\ b = benchQueue[1] /\ b \in Workers
      /\ \A i \in DOMAIN benchQueue' : benchQueue'[i] = benchQueue[i + 1]
  BY <1>1, TailEntries
<1>3. /\ \A i, k \in DOMAIN benchQueue : benchQueue[i] = benchQueue[k] => i = k
      /\ Queued(b) /\ ~Held(b)
  BY <1>2 DEF BenchInv, BenchAccounted, BenchesDistinct, Queued
<1>4. ASSUME NEW w \in Workers PROVE Queued(w)' <=> (Queued(w) /\ w # b)
  <2>1. ASSUME Queued(w)' PROVE Queued(w) /\ w # b
    BY <1>2, <1>3, <2>1 DEF Queued
  <2>2. ASSUME Queued(w), w # b PROVE Queued(w)'
    <3>1. PICK i \in DOMAIN benchQueue : benchQueue[i] = w
      BY <2>2 DEF Queued
    <3>2. i - 1 \in DOMAIN benchQueue' /\ (i - 1) + 1 = i
      BY <1>2, <2>2, <3>1
    <3>3. QED BY <1>2, <3>1, <3>2 DEF Queued
  <2>3. QED BY <2>1, <2>2
<1>5. \A w \in Workers : Held(w)' <=> (Held(w) \/ w = b)
  BY <1>1, <1>2 DEF Held
<1>6. \A i, k \in DOMAIN benchQueue' : benchQueue'[i] = benchQueue'[k] => i = k
  BY <1>2, <1>3
<1>7. \A k, l \in Jobs : /\ job'[k] = "offering" /\ job'[l] = "offering"
                         /\ bench'[k] = bench'[l]
                         => k = l
  BY <1>1, <1>3 DEF BenchInv, BenchAccounted, BenchesDistinct, Held
<1>8. BenchAccounted'
  BY <1>1, <1>3, <1>4, <1>5, <1>6, <1>7
  DEF BenchInv, BenchAccounted, BenchesDistinct
<1>9. PlayersBusy'
  BY <1>1 DEF BenchInv, PlayersBusy
<1>10. QED BY <1>8, <1>9 DEF BenchInv

LEMMA DeliverStep ==
  ASSUME TypeOK, BenchInv, NEW j \in Jobs, Deliver(j)
  PROVE  BenchInv'
<1> DEFINE b == bench[j]
<1> USE DEF TypeOK
<1>1. /\ benchQueue' = benchQueue /\ bench' = bench
      /\ job' = [job EXCEPT ![j] = "playing"]
      /\ worker' = [worker EXCEPT ![b] = "play"]
      /\ job[j] = "offering" /\ worker[b] = "select"
  BY DEF Deliver, Place
<1>2. b \in Workers /\ Held(b) /\ ~Queued(b)
  BY <1>1 DEF Held, BenchInv, BenchAccounted, BenchesDistinct
<1>3. \A w \in Workers : Held(w)' <=> (Held(w) /\ w # b)
  BY <1>1 DEF Held, BenchInv, BenchAccounted, BenchesDistinct
<1>4. \A w \in Workers : Queued(w)' <=> Queued(w)
  BY <1>1 DEF Queued
<1>5. BenchAccounted'
  BY <1>1, <1>2, <1>3, <1>4 DEF BenchInv, BenchAccounted, BenchesDistinct
<1>6. PlayersBusy'
  BY <1>1, <1>2 DEF BenchInv, PlayersBusy
<1>7. QED BY <1>5, <1>6 DEF BenchInv

LEMMA PlayStep ==
  ASSUME TypeOK, BenchInv, NEW j \in Jobs, Play(j)
  PROVE  BenchInv'
<1> DEFINE b == bench[j]
<1> USE DEF TypeOK
<1>1. /\ benchQueue' = benchQueue /\ bench' = bench
      /\ job' = [job EXCEPT ![j] = "played"]
      /\ worker' = [worker EXCEPT ![b] = "register"]
      /\ job[j] = "playing" /\ b \in Workers
  BY DEF Play, Place, Loop
<1>2. worker[b] = "play" /\ ~Held(b) /\ ~Queued(b)
  BY <1>1 DEF BenchInv, PlayersBusy, BenchAccounted
<1>3. \A w \in Workers : (Held(w)' <=> Held(w)) /\ (Queued(w)' <=> Queued(w))
  BY <1>1 DEF Held, Queued
<1>4. BenchAccounted'
  BY <1>1, <1>2, <1>3 DEF BenchInv, BenchAccounted, BenchesDistinct
<1>5. PlayersBusy'
  BY <1>1 DEF BenchInv, PlayersBusy
<1>6. QED BY <1>4, <1>5 DEF BenchInv

LEMMA RegisterStep ==
  ASSUME TypeOK, BenchInv, NEW w \in Workers, Register(w)
  PROVE  BenchInv'
<1> USE DEF TypeOK
<1>1. /\ benchQueue' = Append(benchQueue, w) /\ bench' = bench /\ job' = job
      /\ worker' = [worker EXCEPT ![w] = "select"]
      /\ worker[w] = "register"
  BY DEF Register
<1>2. ~Held(w) /\ ~Queued(w)
  BY <1>1 DEF BenchInv, BenchAccounted
<1>3. /\ DOMAIN benchQueue = 1..Len(benchQueue) /\ Len(benchQueue) \in Nat
      /\ DOMAIN benchQueue' = 1..(Len(benchQueue) + 1)
      /\ \A i \in DOMAIN benchQueue : benchQueue'[i] = benchQueue[i]
      /\ benchQueue'[Len(benchQueue) + 1] = w
  BY <1>1, AppendEntries
<1>4. \A v \in Workers : Queued(v)' <=> (Queued(v) \/ v = w)
  BY <1>3 DEF Queued
<1>5. \A v \in Workers : Held(v)' <=> Held(v)
  BY <1>1 DEF Held
<1>6. \A i, k \in DOMAIN benchQueue' : benchQueue'[i] = benchQueue'[k] => i = k
  <2>1. \A i \in DOMAIN benchQueue : benchQueue[i] # w
    BY <1>2 DEF Queued
  <2>2. \A i \in DOMAIN benchQueue' : i \in DOMAIN benchQueue \/ i = Len(benchQueue) + 1
    BY <1>3
  <2>3. QED
    BY <1>3, <2>1, <2>2 DEF BenchInv, BenchAccounted, BenchesDistinct
<1>7. BenchAccounted'
  BY <1>1, <1>2, <1>4, <1>5, <1>6 DEF BenchInv, BenchAccounted, BenchesDistinct
<1>8. PlayersBusy'
  BY <1>1 DEF BenchInv, PlayersBusy
<1>9. QED BY <1>7, <1>8 DEF BenchInv

LEMMA FinishStep ==
  ASSUME TypeOK, BenchInv, NEW w \in Workers, Finish(w)
  PROVE  BenchInv'
<1> USE DEF TypeOK
<1>1. /\ benchQueue' = benchQueue /\ bench' = bench /\ job' = job
      /\ worker' = [worker EXCEPT ![w] = "done"]
      /\ worker[w] = "select"
  BY DEF Finish
<1>2. \A v \in Workers : (Held(v)' <=> Held(v)) /\ (Queued(v)' <=> Queued(v))
  BY <1>1 DEF Held, Queued
<1>3. QED
  BY <1>1, <1>2 DEF BenchInv, BenchAccounted, BenchesDistinct, PlayersBusy

LEMMA NextBench == TypeOK /\ QueueInv /\ BenchInv /\ [Next]_vars => BenchInv'
<1> SUFFICES ASSUME TypeOK, QueueInv, BenchInv, [Next]_vars PROVE BenchInv'
  OBVIOUS
<1> USE DEF flow, shop
<1>1. ASSUME NEW j \in Jobs, CallAddJob(j) PROVE BenchInv'
  BY <1>1, BenchFrame DEF CallAddJob, Place, TypeOK
<1>2. ASSUME NEW j \in Jobs, SendOnClosed(j) PROVE BenchInv'
  BY <1>2, BenchFrame DEF SendOnClosed
<1>3. ASSUME NEW j \in Jobs, Enqueue(j) PROVE BenchInv'
  BY <1>3, BenchFrame DEF Enqueue, Place, TypeOK
<1>4. ASSUME NEW j \in Jobs, HandOver(j) PROVE BenchInv'
  BY <1>4, BenchFrame DEF HandOver, Place, TypeOK
<1>5. ASSUME CallCloseWorkFlow \/ Signal \/ Park \/ CloseQueue \/ StopWorkers
             \/ ReportClosed
      PROVE BenchInv'
  BY <1>5, BenchFrame
  DEF CallCloseWorkFlow, Signal, Park, CloseQueue, StopWorkers, ReportClosed
<1>6. ASSUME Receive PROVE BenchInv'
  <2>1. Head(jobQueue) \in Jobs /\ job[Head(jobQueue)] = "queued"
    BY <1>6, TailEntries DEF Receive, TypeOK, QueueInv
  <2>2. QED
    BY <1>6, <2>1, BenchFrame DEF Receive, Place, TypeOK
<1>7. ASSUME NEW j \in Jobs, SpawnHandler(j) PROVE BenchInv'
  BY <1>7, BenchFrame DEF SpawnHandler, Place, TypeOK
<1>8. CASE UNCHANGED vars
  BY <1>8, BenchFrame DEF vars
<1>9. QED
  BY <1>1, <1>2, <1>3, <1>4, <1>5, <1>6, <1>7, <1>8, TakeBenchStep,
     DeliverStep, PlayStep, RegisterStep, FinishStep
  DEF Next, Send, Dispatch, Handle, Work

\* No workbench is offered twice and none is lost (Start, lines 45-64, and the
\* handlers of Dispatch, lines 122-127).
THEOREM BenchSafety == Spec => []BenchAccounted
<1>1. Init => TypeOK /\ QueueInv /\ BenchInv
  BY InitType, InitQueue, InitBench
<1>2. /\ TypeOK /\ QueueInv /\ BenchInv
      /\ [Next]_vars
      => (TypeOK /\ QueueInv /\ BenchInv)'
  BY NextType, NextQueue, NextBench
<1>3. TypeOK /\ QueueInv /\ BenchInv => BenchAccounted
  BY DEF BenchInv
<1>4. QED BY <1>1, <1>2, <1>3, PTL DEF Spec

\* A sequence of distinct elements of a finite set that misses one of them is
\* shorter than the set is large.
LEMMA MissingOne ==
  ASSUME NEW S, IsFiniteSet(S), NEW q \in Seq(S), NEW e \in S,
         \A i \in DOMAIN q : q[i] # e,
         \A i, k \in DOMAIN q : q[i] = q[k] => i = k
  PROVE  Len(q) < Cardinality(S)
<1> DEFINE T == S \ {e}
<1>1. DOMAIN q = 1..Len(q) /\ Len(q) \in Nat /\ q \in [1..Len(q) -> T]
  OBVIOUS
<1>2. /\ IsFiniteSet(T) /\ Cardinality(T) = Cardinality(S) - 1
      /\ Cardinality(S) \in Nat /\ Cardinality(T) \in Nat
  BY FS_RemoveElement, FS_CardinalityType
<1>3. IsFiniteSet(1..Len(q)) /\ Cardinality(1..Len(q)) = Len(q)
  <2>1. 1 \in Int /\ Len(q) \in Int /\ Len(q) >= 0
    BY <1>1
  <2>2. /\ IsFiniteSet(1..Len(q))
        /\ Cardinality(1..Len(q)) = IF 1 > Len(q) THEN 0 ELSE Len(q) - 1 + 1
    BY <2>1, FS_Interval, Zenon
  <2>3. QED BY <2>1, <2>2
<1>4. ~(Cardinality(T) < Cardinality(1..Len(q)))
  <2>1. ASSUME Cardinality(T) < Cardinality(1..Len(q)) PROVE FALSE
    <3> HIDE DEF T
    <3>1. \E x, y \in 1..Len(q) : x # y /\ q[x] = q[y]
      BY <1>1, <1>2, <1>3, <2>1, FS_PigeonHole
    <3>2. QED BY <1>1, <3>1
  <2>2. QED BY <2>1
<1>5. QED BY <1>1, <1>2, <1>3, <1>4

\* The send of Start at line 50 always finds room in GWorkbenchQueue: a worker
\* at that send is the one worker whose workbench is not queued.
THEOREM NeverBlocks == Spec => []RegisterNeverBlocks
<1>1. Spec => []TypeOK /\ []BenchAccounted
  BY TypeCorrect, BenchSafety
<1>2. TypeOK /\ BenchAccounted => RegisterNeverBlocks
  <2> SUFFICES ASSUME TypeOK, BenchAccounted, NEW w \in Workers,
                      worker[w] = "register"
               PROVE  Len(benchQueue) < BenchCapacity
    BY DEF RegisterNeverBlocks
  <2>1. ~Queued(w)
    BY DEF BenchAccounted
  <2>2. \A i \in DOMAIN benchQueue : benchQueue[i] # w
    BY <2>1 DEF Queued
  <2>3. \A i, k \in DOMAIN benchQueue : benchQueue[i] = benchQueue[k] => i = k
    BY DEF BenchAccounted, BenchesDistinct
  <2>4. benchQueue \in Seq(Workers) /\ IsFiniteSet(Workers)
    BY DEF TypeOK
  <2>5. QED BY <2>2, <2>3, <2>4, MissingOne DEF BenchCapacity
<1>3. QED BY <1>1, <1>2, PTL
-----------------------------------------------------------------------------
(***************************************************************************)
(* Shutdown.  The order of Dispatch's steps that DrainedBeforeQuit rests   *)
(* on: no Stop is started, and no worker is gone, before Dispatch has left *)
(* its loop, and it leaves the loop with GJobQueue closed and empty.       *)
(***************************************************************************)
StopInv ==
  /\ stops # {} => dispatcher \in {"closing", "ended"}
  /\ \A w \in Workers : worker[w] = "done" => dispatcher \in {"closing", "ended"}
  /\ dispatcher \in {"closing", "ended"} => closed /\ jobQueue = <<>>

LEMMA NextStop == TypeOK /\ StopInv /\ [Next]_vars => StopInv'
<1> SUFFICES ASSUME TypeOK, StopInv, [Next]_vars PROVE StopInv'
  OBVIOUS
<1> USE DEF StopInv, flow, shop
<1>1. ASSUME NEW j \in Jobs, CallAddJob(j) \/ SendOnClosed(j) PROVE StopInv'
  BY <1>1 DEF CallAddJob, SendOnClosed
<1>2. ASSUME NEW j \in Jobs, Enqueue(j) \/ HandOver(j) \/ SpawnHandler(j)
      PROVE  StopInv'
  BY <1>2 DEF Enqueue, HandOver, SpawnHandler
<1>3. ASSUME CallCloseWorkFlow \/ Signal \/ Park \/ CloseQueue \/ Receive
      PROVE  StopInv'
  BY <1>3 DEF CallCloseWorkFlow, Signal, SignalReaches, Park, CloseQueue, Receive
<1>4. ASSUME StopWorkers \/ ReportClosed PROVE StopInv'
  BY <1>4 DEF StopWorkers, Drained, ReportClosed
<1>5. ASSUME NEW j \in Jobs, TakeBench(j) PROVE StopInv'
  BY <1>5 DEF TakeBench
<1>6. ASSUME NEW j \in Jobs, Deliver(j) \/ Play(j) PROVE StopInv'
  BY <1>6 DEF Deliver, Play, Loop, TypeOK
<1>7. ASSUME NEW w \in Workers, Register(w) \/ Finish(w) PROVE StopInv'
  BY <1>7 DEF Register, Finish, TypeOK
<1>8. CASE UNCHANGED vars
  BY <1>8 DEF vars
<1>9. QED
  BY <1>1, <1>2, <1>3, <1>4, <1>5, <1>6, <1>7, <1>8
  DEF Next, Send, Dispatch, Handle, Work

\* No worker quits while an accepted job has no handler (Dispatch, lines 128-134).
THEOREM QuitAfterDrain == Spec => []DrainedBeforeQuit
<1>1. Init => TypeOK /\ QueueInv /\ StopInv
  <2>1. Init => StopInv
    BY DEF Init, StopInv
  <2>2. QED BY <2>1, InitType, InitQueue
<1>2. /\ TypeOK /\ QueueInv /\ StopInv
      /\ [Next]_vars
      => (TypeOK /\ QueueInv /\ StopInv)'
  BY NextType, NextQueue, NextStop
<1>3. TypeOK /\ QueueInv /\ StopInv => DrainedBeforeQuit
  <2> SUFFICES ASSUME QueueInv, StopInv, NEW w \in Workers, worker[w] = "done"
               PROVE  closed /\ \A j \in Jobs : job[j] \notin {"queued", "taken"}
    BY DEF DrainedBeforeQuit
  <2>1. dispatcher \in {"closing", "ended"} /\ closed /\ DOMAIN jobQueue = {}
    BY DEF StopInv
  <2>2. QED BY <2>1 DEF QueueInv
<1>4. QED BY <1>1, <1>2, <1>3, PTL DEF Spec

\* GJobQueue is closed at most once (Dispatch, lines 115-117).
THEOREM ClosedOnce == Spec => []NoDoubleClose
<1>1. Init => NoDoubleClose
  BY DEF Init, NoDoubleClose
<1>2. NoDoubleClose /\ [Next]_vars => NoDoubleClose'
  BY DEF NoDoubleClose, Next, vars, flow, shop, CallAddJob, Send, SendOnClosed,
         Enqueue, HandOver, Handle, TakeBench, Deliver, Work, Register, Finish,
         Play, Dispatch, Park, CloseQueue, Receive, StopWorkers, ReportClosed,
         SpawnHandler, CallCloseWorkFlow, Signal, SignalReaches
<1>3. QED BY <1>1, <1>2, PTL DEF Spec
-----------------------------------------------------------------------------
(***************************************************************************)
(* Refinement: every step of the pool is a step of the ledger or leaves    *)
(* the ledger as it is.                                                    *)
(***************************************************************************)
LedgerOf == [j \in Jobs |-> LedgerStatus(job[j])]

LEMMA LedgerInitial == Init => Ledger!LedgerInit
  BY DEF Init, Ledger!LedgerInit, LedgerStatus

\* A step that moves one job from place s to place t moves its ledger status.
LEMMA LedgerMove ==
  ASSUME TypeOK, NEW j \in Jobs, NEW t, job' = [job EXCEPT ![j] = t]
  PROVE  LedgerOf' = [LedgerOf EXCEPT ![j] = LedgerStatus(t)]
  BY DEF TypeOK, LedgerOf

LEMMA LedgerSame ==
  ASSUME TypeOK, NEW j \in Jobs, NEW t, job' = [job EXCEPT ![j] = t],
         LedgerStatus(t) = LedgerStatus(job[j])
  PROVE  LedgerOf' = LedgerOf
  BY LedgerMove DEF LedgerOf

LEMMA LedgerStep ==
  TypeOK /\ QueueInv /\ NoDoubleClose /\ [Next]_vars
     => [Ledger!LedgerNext]_(Ledger!ledgerVars)
<1> SUFFICES ASSUME TypeOK, QueueInv, NoDoubleClose, [Next]_vars
             PROVE  [Ledger!LedgerNext]_(Ledger!ledgerVars)
  OBVIOUS
<1> DEFINE Stutter == LedgerOf' = LedgerOf /\ closed' = closed
<1> USE DEF flow, shop
<1>1. Stutter => UNCHANGED Ledger!ledgerVars
  BY DEF LedgerOf, Ledger!ledgerVars
<1>2. ASSUME NEW j \in Jobs, Enqueue(j) \/ HandOver(j)
      PROVE  Ledger!Accept(j)
  <2>1. /\ LedgerOf' = [LedgerOf EXCEPT ![j] = "accepted"]
        /\ LedgerOf[j] = "new" /\ ~closed /\ closed' = closed
    BY <1>2, LedgerMove
    DEF Enqueue, HandOver, Place, LedgerOf, LedgerStatus, TypeOK
  <2>2. QED BY <2>1 DEF Ledger!Accept, LedgerOf, TypeOK
<1>3. ASSUME NEW j \in Jobs, Play(j)
      PROVE  Ledger!Process(j)
  <2>1. /\ LedgerOf' = [LedgerOf EXCEPT ![j] = "played"]
        /\ LedgerOf[j] = "accepted" /\ closed' = closed
    BY <1>3, LedgerMove DEF Play, Place, LedgerOf, LedgerStatus, TypeOK
  <2>2. QED BY <2>1 DEF Ledger!Process, LedgerOf
<1>4. ASSUME CloseQueue PROVE Ledger!CloseBooks
  BY <1>4 DEF CloseQueue, NoDoubleClose, Ledger!CloseBooks
<1>5. ASSUME NEW j \in Jobs,
             CallAddJob(j) \/ SpawnHandler(j) \/ TakeBench(j) \/ Deliver(j)
      PROVE  Stutter
  BY <1>5, LedgerSame
  DEF CallAddJob, SpawnHandler, TakeBench, Deliver, Place, LedgerStatus
<1>6. ASSUME Receive PROVE Stutter
  <2>1. Head(jobQueue) \in Jobs /\ job[Head(jobQueue)] = "queued"
    BY <1>6, TailEntries DEF Receive, TypeOK, QueueInv
  <2>2. QED BY <1>6, <2>1, LedgerSame DEF Receive, Place, LedgerStatus
<1>7. ASSUME CallCloseWorkFlow \/ Signal \/ Park \/ StopWorkers \/ ReportClosed
      PROVE  Stutter
  BY <1>7 DEF CallCloseWorkFlow, Signal, Park, StopWorkers, ReportClosed, LedgerOf
<1>8. ASSUME NEW j \in Jobs, SendOnClosed(j) PROVE Stutter
  BY <1>8 DEF SendOnClosed, LedgerOf
<1>9. ASSUME NEW w \in Workers, Register(w) \/ Finish(w) PROVE Stutter
  BY <1>9 DEF Register, Finish, LedgerOf
<1>10. CASE UNCHANGED vars
  BY <1>1, <1>10 DEF vars, LedgerOf
<1>11. QED
  <2> HIDE DEF Stutter
  <2>1. CASE Next
    BY <1>1, <1>2, <1>3, <1>4, <1>5, <1>6, <1>7, <1>8, <1>9, <2>1
    DEF Next, Send, Dispatch, Handle, Work, Ledger!LedgerNext
  <2>2. QED BY <1>10, <2>1

\* Every behaviour of the pool, a panicking one too, is one of the job ledger:
\* a job is accepted at most once and before the close, and played at most once.
THEOREM Refinement == Spec => ImplementsLedger
<1>1. Init => TypeOK /\ QueueInv /\ NoDoubleClose
  BY InitType, InitQueue DEF Init, NoDoubleClose
<1>2. TypeOK /\ QueueInv /\ [Next]_vars => (TypeOK /\ QueueInv)'
  BY NextType, NextQueue
<1>3. QED
  BY <1>1, <1>2, ClosedOnce, LedgerInitial, LedgerStep, PTL
  DEF Spec, ImplementsLedger, Ledger!LedgerSpec
=============================================================================
