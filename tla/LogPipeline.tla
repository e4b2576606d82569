---------------------------- MODULE LogPipeline ----------------------------
(***************************************************************************)
(* channel_pipe/pipe.go: MergeLogs builds three goroutines connected by    *)
(* bounded channels,                                                       *)
(*                                                                         *)
(*     Scan --paths--> Read --readers--> Merge --report-->                 *)
(*                                                                         *)
(* each of which also sends its error, or nil, on an error channel that    *)
(* Wait collects.  The first failure cancels the context the stages share; *)
(* an interrupt of main cancels it from outside.  Which file is unreadable *)
(* is free, so every open, walk and copy may fail.  The model starts when  *)
(* the output file is created: without it MergeLogs returns the error of   *)
(* os.Create and starts no stage.                                          *)
(***************************************************************************)
EXTENDS Naturals, Sequences

CONSTANTS NumFiles,   \* the regular files under root are 1..NumFiles, in the order of Walk
          PathCap,    \* capacity of the channel paths
          ReaderCap   \* capacity of the channel readers

ASSUME PipelineAssumption == /\ NumFiles \in Nat
                             /\ PathCap \in Nat \ {0}
                             /\ ReaderCap \in Nat \ {0}

VARIABLES
  stage,        \* where the goroutine of each stage is, see StageStates
  errc,         \* what a stage has sent on its error channel
  next,         \* the next file Walk visits
  paths,        \* buffer of paths
  hand,         \* the file Read is about to send on readers
  readers,      \* buffer of readers
  open,         \* files whose handle is open
  merged,       \* files Merge has copied to the output
  report,       \* a report is in the buffer of the channel report
  canceled,     \* the shared context is done
  interrupted,  \* main's signal goroutine has cancelled the parent context
  collected,    \* what the goroutines of Wait have received from each stage
  outcome       \* what MergeLogs has returned

queues == <<next, paths, hand, readers, open, merged, report>>
caller == <<canceled, interrupted, collected, outcome>>
pipeVars == <<stage, errc, queues, caller>>

Stages == {"scan", "read", "merge"}

\* run: in the loop; hold: Read has an item to send; check: Merge is about to
\* look at the context; closing: the error is sent; exited: the output is closed.
StageStates == {"run", "hold", "check", "closing", "exited"}

Errors == {"nil", "canceled", "failed"}

\* "report": a report and no error; "missing": neither a report nor an error.
Outcomes == {"none", "report", "missing", "canceled", "failed"}

PipeInit == /\ stage = [s \in Stages |-> "run"]
            /\ errc = [s \in Stages |-> "none"]
            /\ next = 1
            /\ paths = <<>>
            /\ hand = 0
            /\ readers = <<>>
            /\ open = {}
            /\ merged = <<>>
            /\ report = FALSE
            /\ canceled = FALSE
            /\ interrupted = FALSE
            /\ collected = [s \in Stages |-> "none"]
            /\ outcome = "none"

At(s, pc) == stage[s] = pc
Goto(s, pc) == stage' = [stage EXCEPT ![s] = pc]

\* A stage returns from its function and sends the result on its error channel.
Return(s, e) == /\ errc' = [errc EXCEPT ![s] = e]
                /\ Goto(s, "closing")

\* The deferred close of the stage's output, after the error was sent.
CloseOutput(s) == /\ At(s, "closing")
                  /\ Goto(s, "exited")
                  /\ UNCHANGED <<errc, queues, caller>>
-----------------------------------------------------------------------------
\* Scan: one regular file of Walk is sent, or the context is done, or Walk fails.
ScanSend == /\ At("scan", "run")
            /\ next <= NumFiles
            /\ Len(paths) < PathCap
            /\ paths' = Append(paths, next)
            /\ next' = next + 1
            /\ UNCHANGED <<stage, errc, hand, readers, open, merged, report, caller>>

ScanCanceled == /\ At("scan", "run")
                /\ next <= NumFiles
                /\ canceled
                /\ Return("scan", "canceled")
                /\ UNCHANGED <<queues, caller>>

ScanFails == /\ At("scan", "run")
             /\ Return("scan", "failed")
             /\ UNCHANGED <<queues, caller>>

ScanEnds == /\ At("scan", "run")
            /\ next > NumFiles
            /\ Return("scan", "nil")
            /\ UNCHANGED <<queues, caller>>

Scan == ScanSend \/ ScanCanceled \/ ScanFails \/ ScanEnds
-----------------------------------------------------------------------------
ReadOpens == /\ At("read", "run")
             /\ paths # <<>>
             /\ paths' = Tail(paths)
             /\ hand' = Head(paths)
             /\ open' = open \union {Head(paths)}
             /\ Goto("read", "hold")
             /\ UNCHANGED <<errc, next, readers, merged, report, caller>>

\* os.Open fails, or gzip.NewReader does, which leaves the file open.
ReadFails == /\ At("read", "run")
             /\ paths # <<>>
             /\ paths' = Tail(paths)
             /\ open' \in {open, open \union {Head(paths)}}
             /\ Return("read", "failed")
             /\ UNCHANGED <<next, hand, readers, merged, report, caller>>

\* The capacity of readers.
ReaderRoom == Len(readers) < ReaderCap

ReadSend == /\ At("read", "hold")
            /\ ReaderRoom
            /\ readers' = Append(readers, hand)
            /\ Goto("read", "run")
            /\ UNCHANGED <<errc, next, paths, hand, open, merged, report, caller>>

ReadCanceled == /\ At("read", "hold")
                /\ canceled
                /\ Return("read", "canceled")
                /\ UNCHANGED <<queues, caller>>

ReadEnds == /\ At("read", "run")
            /\ paths = <<>>
            /\ At("scan", "exited")
            /\ Return("read", "nil")
            /\ UNCHANGED <<queues, caller>>

Read == ReadOpens \/ ReadFails \/ ReadSend \/ ReadCanceled \/ ReadEnds
-----------------------------------------------------------------------------
MergeCopies == /\ At("merge", "run")
               /\ readers # <<>>
               /\ readers' = Tail(readers)
               /\ merged' = Append(merged, Head(readers))
               /\ open' = open \ {Head(readers)}
               /\ Goto("merge", "check")
               /\ UNCHANGED <<errc, next, paths, hand, report, caller>>

MergeFails == /\ At("merge", "run")
              /\ readers # <<>>
              /\ readers' = Tail(readers)
              /\ Return("merge", "failed")
              /\ UNCHANGED <<next, paths, hand, open, merged, report, caller>>

MergeChecks == /\ At("merge", "check")
               /\ IF canceled THEN Return("merge", "canceled")
                              ELSE Goto("merge", "run") /\ errc' = errc
               /\ UNCHANGED <<queues, caller>>

\* The range over readers ends when Read has closed it and it is drained.
\* Fault: the range ends as soon as readers is empty.
ReadersEmpty == readers = <<>>
ReadersDone == readers = <<>> /\ At("read", "exited")

MergeEnds == /\ At("merge", "run")
             /\ ReadersDone
             /\ report' = TRUE
             /\ Return("merge", "nil")
             /\ UNCHANGED <<next, paths, hand, readers, open, merged, caller>>

Merge == MergeCopies \/ MergeFails \/ MergeChecks \/ MergeEnds
-----------------------------------------------------------------------------
\* A goroutine of Wait cancels the context on an error that is not the
\* context's own.  Fault: it never does.
NeverCancels(e) == FALSE
Cancels(e) == e = "failed"

Collect(s) == /\ errc[s] # "none"
              /\ collected[s] = "none"
              /\ collected' = [collected EXCEPT ![s] = errc[s]]
              /\ canceled' = (canceled \/ Cancels(errc[s]))
              /\ UNCHANGED <<stage, errc, queues, interrupted, outcome>>

\* Wait joins its three goroutines.
Joined == \A s \in Stages : collected[s] # "none"

\* A failure of any stage is the result of Wait, else Scan's own error is.
\* Fault: Scan's own error is the result.
ScanError == collected["scan"]
WaitError == IF \E s \in Stages : collected[s] = "failed"
               THEN "failed"
               ELSE collected["scan"]

\* MergeLogs cancels its context as it returns.  On a nil error it receives from
\* report, which is empty and closed when Merge ended with an error.
MergeLogsReturns ==
  /\ outcome = "none"
  /\ Joined
  /\ \/ /\ WaitError # "nil"
        /\ outcome' = WaitError
     \/ /\ WaitError = "nil"
        /\ report
        /\ outcome' = "report"
     \/ /\ WaitError = "nil"
        /\ ~report
        /\ At("merge", "exited")
        /\ outcome' = "missing"
  /\ canceled' = TRUE
  /\ UNCHANGED <<stage, errc, queues, interrupted, collected>>

\* SIGINT or SIGTERM: main's goroutine cancels the parent context, once.
Interrupt == /\ ~interrupted
             /\ interrupted' = TRUE
             /\ canceled' = TRUE
             /\ UNCHANGED <<stage, errc, queues, collected, outcome>>
-----------------------------------------------------------------------------
WaitAll == MergeLogsReturns \/ \E s \in Stages : Collect(s)

PipeNext == \/ Scan \/ Read \/ Merge
            \/ \E s \in Stages : CloseOutput(s)
            \/ WaitAll \/ Interrupt

PipeSpec == PipeInit /\ [][PipeNext]_pipeVars

\* Every goroutine that can run is run; no failure and no interrupt is forced.
PipeFairness == /\ WF_pipeVars(ScanSend \/ ScanCanceled \/ ScanEnds)
                /\ WF_pipeVars(ReadOpens \/ ReadSend \/ ReadCanceled \/ ReadEnds)
                /\ WF_pipeVars(MergeCopies \/ MergeChecks \/ MergeEnds)
                /\ \A s \in Stages : WF_pipeVars(CloseOutput(s)) /\ WF_pipeVars(Collect(s))
                /\ WF_pipeVars(MergeLogsReturns)

PipeFairSpec == PipeSpec /\ PipeFairness
-----------------------------------------------------------------------------
Files == 1..NumFiles

\* The type invariant; the channels never exceed their capacities.
PipeTypeOK == /\ stage \in [Stages -> StageStates]
              /\ errc \in [Stages -> Errors \union {"none"}]
              /\ next \in 1..(NumFiles + 1)
              /\ paths \in Seq(Files) /\ Len(paths) <= PathCap
              /\ hand \in Files \union {0}
              /\ readers \in Seq(Files) /\ Len(readers) <= ReaderCap
              /\ open \subseteq Files
              /\ merged \in Seq(Files)
              /\ report \in BOOLEAN /\ canceled \in BOOLEAN /\ interrupted \in BOOLEAN
              /\ collected \in [Stages -> Errors \union {"none"}]
              /\ outcome \in Outcomes

\* Without an interrupt, a report returned with no error is complete: every file
\* was merged, once and in the order of Walk, and every handle is closed.  (An
\* interrupt after Scan was through lets a partial report out as a success: Read
\* gives up, Merge sees its input end, and Wait returns the error of Scan.)  That
\* neither a report nor an error is returned happens after such an interrupt only.
CompleteReport ==
  /\ outcome = "report" /\ ~interrupted => merged = [i \in Files |-> i] /\ open = {}
  /\ outcome = "missing" => interrupted /\ errc["scan"] = "nil"

\* A failure of any stage is what MergeLogs returns, never a cancellation it
\* caused in another stage, and never a partial report.
NoErrorSwallowed ==
  outcome # "none" =>
    (outcome = "failed" <=> \E s \in Stages : errc[s] = "failed")

\* What main relies on (it reads report.TotalBytes at line 31 when the error is
\* nil): MergeLogs returns a report or an error.
NilErrorHasReport == outcome # "missing"

\* MergeLogs returns and no goroutine stays behind, whatever fails and whenever
\* the interrupt comes: a stage blocked on a full channel is always released.
Terminates ==
  <>[](outcome # "none" /\ \A s \in Stages : stage[s] = "exited")
=============================================================================
