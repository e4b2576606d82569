----------------------------- MODULE WorkerPool -----------------------------
(***************************************************************************)
(* goroutine_pool/pool/pool.go: jobs flow from the callers of AddJob over  *)
(* GJobQueue to the Dispatch goroutine, which starts a handler goroutine   *)
(* per job; a handler receives a workbench from GWorkbenchQueue and sends  *)
(* the job on it to its worker, which plays the job and then offers its    *)
(* workbench again.  The model starts where StartWorkFlow returns; AddJob  *)
(* is called by one goroutine per job and CloseWorkFlow by one more.       *)
(***************************************************************************)
EXTENDS Naturals, Sequences, FiniteSets

CONSTANTS Jobs, Workers, MaxQueue,
          NoWorker   \* the bench of a handler that has none

ASSUME PoolAssumption == /\ IsFiniteSet(Workers)
                         /\ MaxQueue \in Nat \ {0}
                         /\ NoWorker \notin Workers

VARIABLES
  jobQueue,    \* buffer of GJobQueue
  closed,      \* GJobQueue is closed
  dispatcher,  \* where the Dispatch goroutine is, see DispatcherStates
  job,         \* where each job is, see JobStates
  benchQueue,  \* buffer of GWorkbenchQueue
  bench,       \* the workbench the handler of a job has received
  worker,      \* where each worker goroutine is, see WorkerStates
  stops,       \* workers whose Stop goroutine is still sending on Finished
  closer,      \* the caller of CloseWorkFlow
  panicked     \* the process died of a send on, or close of, a closed channel

flow == <<jobQueue, closed, dispatcher>>
shop == <<benchQueue, bench, worker, stops>>
vars == <<flow, shop, job, closer, panicked>>

(***************************************************************************)
(* calling: at the send of AddJob; queued: in GJobQueue; taken: received   *)
(* by Dispatch; waiting: its handler waits for a workbench; offering: its  *)
(* handler sends it on bench[j].                                           *)
(***************************************************************************)
JobStates == {"new", "calling", "queued", "taken", "waiting", "offering",
              "playing", "played"}

\* register: at the send of its own workbench; select: in the select of Start.
WorkerStates == {"register", "select", "play", "done"}

(***************************************************************************)
(* run: about to evaluate the select; parked: blocked in it; signalled:    *)
(* about to close GJobQueue; spawn: about to start a handler; closing: at  *)
(* the send on Closed; ended: Dispatch has returned.                       *)
(***************************************************************************)
DispatcherStates == {"run", "parked", "signalled", "spawn", "closing", "ended"}

Init == /\ jobQueue = <<>>
        /\ closed = FALSE
        /\ dispatcher = "run"
        /\ job = [j \in Jobs |-> "new"]
        /\ benchQueue = <<>>
        /\ bench = [j \in Jobs |-> NoWorker]
        /\ worker = [w \in Workers |-> "register"]
        /\ stops = {}
        /\ closer = "idle"
        /\ panicked = FALSE

Place(j, s) == job' = [job EXCEPT ![j] = s]

\* A receive removes the head of the buffer.  Fault: it does not.
KeepHead(q) == q
AfterReceive(q) == Tail(q)

\* The capacities of GJobQueue and GWorkbenchQueue.
HasRoom == Len(jobQueue) < MaxQueue
BenchCapacity == Cardinality(Workers)
-----------------------------------------------------------------------------
(***************************************************************************)
(* The callers.  The send of AddJob panics on a closed queue, is received  *)
(* directly by a parked Dispatch, and otherwise waits for the buffer.      *)
(***************************************************************************)
CallAddJob(j) == /\ job[j] = "new"
                 /\ Place(j, "calling")
                 /\ UNCHANGED <<flow, shop, closer, panicked>>

SendOnClosed(j) == /\ job[j] = "calling"
                   /\ closed
                   /\ panicked' = TRUE
                   /\ UNCHANGED <<flow, shop, job, closer>>

Enqueue(j) == /\ job[j] = "calling"
              /\ ~closed
              /\ dispatcher # "parked"
              /\ HasRoom
              /\ jobQueue' = Append(jobQueue, j)
              /\ Place(j, "queued")
              /\ UNCHANGED <<closed, dispatcher, shop, closer, panicked>>

HandOver(j) == /\ job[j] = "calling"
               /\ ~closed
               /\ dispatcher = "parked"
               /\ dispatcher' = "spawn"
               /\ Place(j, "taken")
               /\ UNCHANGED <<jobQueue, closed, shop, closer, panicked>>

CallCloseWorkFlow == /\ closer = "idle"
                     /\ closer' = "waiting"
                     /\ UNCHANGED <<flow, shop, job, panicked>>

(***************************************************************************)
(* EndDispatch is unbuffered and the signal package never blocks on it: a  *)
(* signal reaches Dispatch only while it is parked, and is otherwise       *)
(* dropped, which changes nothing.  Fault: EndDispatch has a buffer.       *)
(***************************************************************************)
SignalBuffered == dispatcher \in {"parked", "run"}
SignalReaches == dispatcher = "parked"

Signal == /\ SignalReaches
          /\ dispatcher' = "signalled"
          /\ UNCHANGED <<jobQueue, closed, shop, job, closer, panicked>>
-----------------------------------------------------------------------------
\* The select of Dispatch finds neither channel ready and blocks.
Park == /\ dispatcher = "run"
        /\ jobQueue = <<>>
        /\ ~closed
        /\ dispatcher' = "parked"
        /\ UNCHANGED <<jobQueue, closed, shop, job, closer, panicked>>

\* close(d.GJobQueue) panics when it was closed before.
CloseQueue == /\ dispatcher = "signalled"
              /\ panicked' = closed
              /\ closed' = TRUE
              /\ dispatcher' = "run"
              /\ UNCHANGED <<jobQueue, shop, job, closer>>

Receive == /\ dispatcher = "run"
           /\ jobQueue # <<>>
           /\ jobQueue' = AfterReceive(jobQueue)
           /\ Place(Head(jobQueue), "taken")
           /\ dispatcher' = "spawn"
           /\ UNCHANGED <<closed, shop, closer, panicked>>

SpawnHandler(j) == /\ dispatcher = "spawn"
                   /\ job[j] = "taken"
                   /\ Place(j, "waiting")
                   /\ dispatcher' = "run"
                   /\ UNCHANGED <<jobQueue, closed, shop, closer, panicked>>

\* A closed channel reports !Ok only once its buffer is empty.  Fault: at once.
ClosedAtOnce == closed
Drained == closed /\ jobQueue = <<>>

\* The loop over d.Workers.  Fault: it misses one.
AllButOne == Workers \ {CHOOSE w \in Workers : TRUE}
ToStop == Workers

StopWorkers == /\ dispatcher = "run"
               /\ Drained
               /\ stops' = ToStop
               /\ dispatcher' = "closing"
               /\ UNCHANGED <<jobQueue, closed, benchQueue, bench, worker, job,
                              closer, panicked>>

\* The send on Closed meets the receive of CloseWorkFlow.
ReportClosed == /\ dispatcher = "closing"
                /\ closer = "waiting"
                /\ dispatcher' = "ended"
                /\ closer' = "closed"
                /\ UNCHANGED <<jobQueue, closed, shop, job, panicked>>
-----------------------------------------------------------------------------
\* The handler goroutine of j receives a workbench, then sends j on it.
TakeBench(j) == /\ job[j] = "waiting"
                /\ benchQueue # <<>>
                /\ bench' = [bench EXCEPT ![j] = Head(benchQueue)]
                /\ benchQueue' = AfterReceive(benchQueue)
                /\ Place(j, "offering")
                /\ UNCHANGED <<flow, worker, stops, closer, panicked>>

Deliver(j) == /\ job[j] = "offering"
              /\ worker[bench[j]] = "select"
              /\ worker' = [worker EXCEPT ![bench[j]] = "play"]
              /\ Place(j, "playing")
              /\ UNCHANGED <<flow, benchQueue, bench, stops, closer, panicked>>
-----------------------------------------------------------------------------
\* The loop of Start: after a job comes the next registration.  Fault: no loop.
NoLoop == "done"
Loop == "register"

Register(w) == /\ worker[w] = "register"
               /\ Len(benchQueue) < BenchCapacity
               /\ benchQueue' = Append(benchQueue, w)
               /\ worker' = [worker EXCEPT ![w] = "select"]
               /\ UNCHANGED <<flow, bench, stops, job, closer, panicked>>

Play(j) == /\ job[j] = "playing"
           /\ Place(j, "played")
           /\ worker' = [worker EXCEPT ![bench[j]] = Loop]
           /\ UNCHANGED <<flow, benchQueue, bench, stops, closer, panicked>>

\* The send of w's Stop goroutine meets the other branch of w's select.
Finish(w) == /\ worker[w] = "select"
             /\ w \in stops
             /\ stops' = stops \ {w}
             /\ worker' = [worker EXCEPT ![w] = "done"]
             /\ UNCHANGED <<flow, benchQueue, bench, job, closer, panicked>>
-----------------------------------------------------------------------------
Send(j) == SendOnClosed(j) \/ Enqueue(j) \/ HandOver(j)

Dispatch == \/ Park \/ CloseQueue \/ Receive \/ StopWorkers \/ ReportClosed
            \/ \E j \in Jobs : SpawnHandler(j)

Handle(j) == TakeBench(j) \/ Deliver(j)

Work(w) == \/ Register(w) \/ Finish(w)
           \/ \E j \in Jobs : bench[j] = w /\ Play(j)

\* A panic ends the process and with it every goroutine.
Next == /\ ~panicked
        /\ \/ \E j \in Jobs : CallAddJob(j) \/ Send(j) \/ Handle(j)
           \/ \E w \in Workers : Work(w)
           \/ Dispatch \/ CallCloseWorkFlow \/ Signal

Spec == Init /\ [][Next]_vars

\* A goroutine that can run is run; when callers call and signals come is free.
Fairness == /\ WF_vars(~panicked /\ Dispatch)
            /\ \A j \in Jobs : /\ WF_vars(~panicked /\ Send(j))
                               /\ WF_vars(~panicked /\ Handle(j))
            /\ \A w \in Workers : WF_vars(~panicked /\ Work(w))

FairSpec == Spec /\ Fairness
-----------------------------------------------------------------------------
\* The type invariant; GJobQueue never exceeds its capacity.
TypeOK ==
  /\ jobQueue \in Seq(Jobs) /\ Len(jobQueue) <= MaxQueue
  /\ closed \in BOOLEAN
  /\ dispatcher \in DispatcherStates
  /\ job \in [Jobs -> JobStates]
  /\ benchQueue \in Seq(Workers)
  /\ bench \in [Jobs -> Workers \union {NoWorker}]
  /\ \A j \in Jobs : job[j] \in {"offering", "playing"} => bench[j] \in Workers
  /\ worker \in [Workers -> WorkerStates]
  /\ stops \subseteq Workers
  /\ closer \in {"idle", "waiting", "closed"}
  /\ panicked \in BOOLEAN

Queued(w) == \E i \in DOMAIN benchQueue : benchQueue[i] = w

Held(w) == \E j \in Jobs : job[j] = "offering" /\ bench[j] = w

BenchesDistinct ==
  /\ \A i, k \in DOMAIN benchQueue : benchQueue[i] = benchQueue[k] => i = k
  /\ \A j, k \in Jobs : /\ job[j] = "offering" /\ job[k] = "offering"
                        /\ bench[j] = bench[k]
                        => j = k
  /\ \A w \in Workers : ~(Queued(w) /\ Held(w))

\* A workbench is in exactly one place outside its worker (in GWorkbenchQueue or
\* with one handler) exactly when the worker waits in the select of Start or has
\* quit and left it behind: no workbench is offered twice, and no worker waits
\* at a workbench nobody can reach.
BenchAccounted ==
  /\ BenchesDistinct
  /\ \A w \in Workers : (Queued(w) \/ Held(w)) <=> worker[w] \in {"select", "done"}

\* The send of a worker's own workbench (Start, line 50) never blocks: the
\* capacity MaxWorkers is enough however registrations and handlers interleave.
RegisterNeverBlocks ==
  \A w \in Workers : worker[w] = "register" => Len(benchQueue) < BenchCapacity

\* Dispatch never closes GJobQueue twice, however many signals arrive: a signal
\* reaches only a parked Dispatch, and on a closed queue it never parks.
NoDoubleClose == dispatcher \in {"parked", "signalled"} => ~closed

\* Workers quit only after the flow was closed and every accepted job was given
\* to a handler: until then an offered job always meets a worker in its select.
DrainedBeforeQuit ==
  \A w \in Workers : worker[w] = "done" =>
     closed /\ \A j \in Jobs : job[j] \notin {"queued", "taken"}

\* Once the queue is closed, the caller of CloseWorkFlow returns and every
\* worker goroutine ends, unless a late AddJob panics.
ShutdownCompletes ==
  (closed /\ closer = "waiting") ~>
     \/ panicked
     \/ closer = "closed" /\ \A w \in Workers : worker[w] = "done"

\* A job whose AddJob was called is accepted and processed, unless the flow is
\* closed first: no lost job, no caller, handler or worker waiting for good.
EveryJobPlayed ==
  \A j \in Jobs : job[j] = "calling" ~> (job[j] = "played" \/ closed)

LedgerStatus(s) == CASE s \in {"new", "calling"} -> "new"
                     [] s = "played" -> "played"
                     [] OTHER -> "accepted"

Ledger == INSTANCE JobLedger
            WITH status <- [j \in Jobs |-> LedgerStatus(job[j])], open <- ~closed

\* The pool implements the ledger its callers rely on: every job is accepted at
\* most once and before the close, and played at most once.
ImplementsLedger == Ledger!LedgerSpec
=============================================================================
