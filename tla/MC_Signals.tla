----------------------------- MODULE MC_Signals -----------------------------
\* Small instances for TLC of the three programs that signals stop: WorkerPool, with
\* more jobs than the queue holds and more than there are workers; LogPipeline, with
\* more files than both channels hold; and GracefulRestart, with two upgrades in a row
\* or at once.  They have nothing in common, and only one of them runs.
EXTENDS WorkerPool, LogPipeline, GracefulRestart

VARIABLE program

\* A program that does not run can make no step: MergeLogs has returned, after an
\* interrupt at the very beginning, and no server was started.  The workers of the pool
\* could run, so its fairness is asked for only where it runs.
PipeOff == /\ stage = [s \in Stages |-> "exited"]
           /\ errc = [s \in Stages |-> "canceled"]
           /\ collected = errc
           /\ next = 1 /\ paths = <<>> /\ hand = 0 /\ readers = <<>> /\ open = {}
           /\ merged = <<>> /\ report = FALSE
           /\ canceled = TRUE /\ interrupted = TRUE
           /\ outcome = "canceled"

RestartOff == /\ proc = [p \in Procs |-> "none"]
              /\ serve = [p \in Procs |-> FALSE]
              /\ sock = [p \in Procs |-> 0]
              /\ conn = [c \in Conns |-> "new"]
              /\ at = [c \in Conns |-> 0]
              /\ faults = 0 /\ slow = FALSE /\ trouble = FALSE

MCInit == \/ program = "pool" /\ Init /\ PipeOff /\ RestartOff
          \/ program = "pipe" /\ Init /\ PipeInit /\ RestartOff
          \/ program = "restart" /\ Init /\ PipeOff /\ RestartInit

MCNext == /\ \/ program = "pool" /\ Next /\ UNCHANGED <<pipeVars, restartVars>>
             \/ program = "pipe" /\ PipeNext /\ UNCHANGED <<vars, restartVars>>
             \/ program = "restart" /\ RestartNext /\ UNCHANGED <<vars, pipeVars>>
          /\ UNCHANGED program

MCFairSpec == /\ MCInit /\ [][MCNext]_<<program, vars, pipeVars, restartVars>>
              /\ program = "pool" => Fairness
              /\ PipeFairness /\ RestartFairness
=============================================================================
