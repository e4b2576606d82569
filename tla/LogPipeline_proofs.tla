------------------------- MODULE LogPipeline_proofs -------------------------
(***************************************************************************)
(* Theorems about LogPipeline, for any number of files, any capacities of  *)
(* the channels, any failures and an interrupt at any moment.              *)
(***************************************************************************)
EXTENDS LogPipeline, SequenceTheorems, TLAPS

USE PipelineAssumption
-----------------------------------------------------------------------------
(* Control: what the stages have returned, and what MergeLogs makes of it. *)
Failed == \E s \in Stages : errc[s] = "failed"

Control ==
  /\ stage \in [Stages -> StageStates]
  /\ errc \in [Stages -> Errors \union {"none"}]
  /\ collected \in [Stages -> Errors \union {"none"}]
  /\ outcome \in Outcomes
  /\ canceled \in BOOLEAN /\ interrupted \in BOOLEAN /\ report \in BOOLEAN

\* A stage has sent its error when it has left its loop, and Wait receives that error.
Returned == \A s \in Stages : errc[s] = "none" <=> stage[s] \notin {"closing", "exited"}
Gathered == \A s \in Stages : collected[s] = "none" \/ collected[s] = errc[s]
Waited == outcome # "none" => Joined

\* The context is done, and a stage gives up for it, only after an interrupt or a
\* failure, as long as MergeLogs has not returned.
Caused == (canceled /\ outcome = "none") \/ (\E s \in Stages : errc[s] = "canceled")
            => interrupted \/ Failed

\* A stage that ends with no error has seen the end of its input.
Ends == /\ errc["scan"] = "nil" => next > NumFiles
        /\ errc["read"] = "nil" => paths = <<>> /\ stage["scan"] = "exited"
        /\ errc["merge"] = "nil" => readers = <<>> /\ stage["read"] = "exited"
        /\ report <=> errc["merge"] = "nil"

Results == /\ outcome # "none" => (outcome = "failed" <=> Failed)
           /\ outcome \in {"report", "missing"} => errc["scan"] = "nil"
           /\ outcome = "report" => report
           /\ outcome = "missing" => ~report

ControlInv == Control /\ Returned /\ Gathered /\ Waited /\ Caused /\ Ends /\ Results

LEMMA InitControl == PipeInit => ControlInv
BY DEF PipeInit, ControlInv, Control, Returned, Gathered, Waited, Caused, Ends, Results,
       Joined, Failed, Stages, StageStates, Errors, Outcomes

\* A stage that is in its loop returns e, and the rest stays as it is.
LEMMA Returning ==
  ASSUME ControlInv, NEW s \in Stages, errc[s] = "none", NEW e \in Errors, Return(s, e),
         UNCHANGED caller, e = "canceled" => canceled, Ends', report' \in BOOLEAN
  PROVE  ControlInv'
<1> USE DEF Return, Goto, caller
<1>1. outcome = "none" /\ ~Joined
  BY DEF ControlInv, Waited, Gathered, Joined, Errors, Control
<1>2. Control' /\ Returned' /\ Gathered'
  BY DEF ControlInv, Control, Returned, Gathered, StageStates, Errors, Ends
<1>3. Caused'
  BY <1>1 DEF ControlInv, Control, Caused, Failed
<1>4. Waited' /\ Results'
  BY <1>1 DEF ControlInv, Waited, Results
<1>5. QED
  BY <1>2, <1>3, <1>4 DEF ControlInv

\* A stage goes on in its loop.
LEMMA Going ==
  ASSUME ControlInv, UNCHANGED <<errc, report, caller>>, Ends',
         stage' \in [Stages -> StageStates],
         \A s \in Stages : stage'[s] = stage[s] \/ (/\ errc[s] = "none"
                                                    /\ stage'[s] \notin {"closing", "exited"})
  PROVE  ControlInv'
BY DEF ControlInv, Control, Returned, Gathered, Waited, Caused, Results, Joined, Failed, caller

LEMMA NextControl == ControlInv /\ [PipeNext]_pipeVars => ControlInv'
<1> SUFFICES ASSUME ControlInv, [PipeNext]_pipeVars PROVE ControlInv'
  OBVIOUS
<1> USE DEF At, Goto, queues
<1>0. /\ stage \in [Stages -> StageStates] /\ {"scan", "read", "merge"} = Stages
      /\ \A s \in Stages : errc[s] = "none" <=> stage[s] \notin {"closing", "exited"}
      /\ errc \in [Stages -> Errors \union {"none"}] /\ report \in BOOLEAN
      /\ Ends
  BY DEF ControlInv, Control, Returned, Stages
<1>1. CASE Scan
  <2>1. errc["scan"] = "none" /\ UNCHANGED caller
    BY <1>0, <1>1 DEF Scan, ScanSend, ScanCanceled, ScanFails, ScanEnds, Stages
  <2>2. CASE ScanSend
    BY <1>0, <2>1, <2>2, Going DEF ScanSend, Ends
  <2>3. CASE ScanCanceled \/ ScanFails \/ ScanEnds
    <3>1. PICK e \in Errors : Return("scan", e) /\ (e = "canceled" => canceled)
                              /\ (e = "nil" => next > NumFiles)
      BY <2>3 DEF ScanCanceled, ScanFails, ScanEnds, Errors
    <3>2. UNCHANGED queues
      BY <2>3 DEF ScanCanceled, ScanFails, ScanEnds
    <3>3. Ends'
      BY <1>0, <2>1, <3>1, <3>2 DEF Ends, Return, Errors
    <3>4. QED
      BY <1>0, <2>1, <3>1, <3>2, <3>3, Returning
  <2>4. QED
    BY <1>1, <2>2, <2>3 DEF Scan
<1>2. CASE Read
  <2>1. errc["read"] = "none" /\ UNCHANGED caller
    BY <1>0, <1>2 DEF Read, ReadOpens, ReadFails, ReadSend, ReadCanceled, ReadEnds, Stages
  <2>2. CASE ReadOpens \/ ReadSend
    <3>1. UNCHANGED <<errc, next, merged, report>> /\ stage' \in [Stages -> StageStates]
      BY <1>0, <2>2 DEF ReadOpens, ReadSend, StageStates
    <3>2. /\ stage'["scan"] = stage["scan"] /\ stage'["merge"] = stage["merge"]
          /\ stage'["read"] \in {"hold", "run"}
      BY <1>0, <2>2 DEF ReadOpens, ReadSend
    <3>3. Ends'
      BY <1>0, <2>1, <3>1, <3>2 DEF Ends
    <3>4. QED
      BY <1>0, <2>1, <3>1, <3>2, <3>3, Going
  <2>3. CASE ReadFails \/ ReadCanceled \/ ReadEnds
    <3>1. PICK e \in Errors : /\ Return("read", e) /\ (e = "canceled" => canceled)
                              /\ e = "nil" => paths' = <<>> /\ stage["scan"] = "exited"
      BY <2>3 DEF ReadFails, ReadCanceled, ReadEnds, Errors
    <3>2. UNCHANGED <<next, readers, merged, report>>
      BY <2>3 DEF ReadFails, ReadCanceled, ReadEnds
    <3>3. Ends'
      BY <1>0, <2>1, <3>1, <3>2 DEF Ends, Return, Errors
    <3>4. QED
      BY <1>0, <2>1, <3>1, <3>2, <3>3, Returning
  <2>4. QED
    BY <1>2, <2>2, <2>3 DEF Read
<1>3. CASE Merge
  <2>1. errc["merge"] = "none" /\ UNCHANGED caller /\ UNCHANGED <<next, paths>>
    BY <1>0, <1>3 DEF Merge, MergeCopies, MergeFails, MergeChecks, MergeEnds, Stages
  <2>2. CASE MergeCopies \/ (MergeChecks /\ ~canceled)
    <3>1. UNCHANGED <<errc, report>> /\ stage' \in [Stages -> StageStates]
      BY <1>0, <2>2 DEF MergeCopies, MergeChecks, StageStates
    <3>2. /\ stage'["scan"] = stage["scan"] /\ stage'["read"] = stage["read"]
          /\ stage'["merge"] \in {"run", "check"}
      BY <1>0, <2>2 DEF MergeCopies, MergeChecks
    <3>3. Ends'
      BY <1>0, <2>1, <3>1, <3>2 DEF Ends
    <3>4. QED
      BY <1>0, <2>1, <3>1, <3>2, <3>3, Going
  <2>3. CASE MergeFails \/ (MergeChecks /\ canceled) \/ MergeEnds
    <3>1. PICK e \in Errors :
            /\ Return("merge", e) /\ (e = "canceled" => canceled)
            /\ e = "nil" => readers' = <<>> /\ stage["read"] = "exited" /\ report' = TRUE
            /\ e # "nil" => UNCHANGED report
      BY <2>3 DEF MergeFails, MergeChecks, MergeEnds, ReadersDone, Errors
    <3>2. report' \in BOOLEAN
      BY <1>0, <3>1
    <3>3. Ends'
      <4>1. ~report
        BY <1>0, <2>1 DEF Ends
      <4>2. report' <=> e = "nil"
        BY <3>1, <4>1
      <4>3. errc'["merge"] = e
        BY <1>0, <3>1 DEF Return
      <4>4. /\ errc'["scan"] = errc["scan"] /\ errc'["read"] = errc["read"]
            /\ stage'["scan"] = stage["scan"] /\ stage'["read"] = stage["read"]
        BY <1>0, <3>1 DEF Return
      <4>5. QED
        BY <1>0, <2>1, <3>1, <4>2, <4>3, <4>4 DEF Ends
    <3>4. QED
      BY <1>0, <2>1, <3>1, <3>2, <3>3, Returning
  <2>4. QED
    BY <1>3, <2>2, <2>3 DEF Merge, MergeChecks
<1>4. ASSUME NEW s \in Stages, CloseOutput(s) PROVE ControlInv'
  <2>1. Control' /\ Returned' /\ Ends'
    BY <1>0, <1>4 DEF CloseOutput, ControlInv, Control, Returned, Ends, StageStates, caller
  <2>2. Gathered' /\ Waited' /\ Caused' /\ Results'
    BY <1>4 DEF CloseOutput, ControlInv, Gathered, Waited, Joined, Caused, Failed, Results,
                caller
  <2>3. QED
    BY <2>1, <2>2 DEF ControlInv
<1>5. ASSUME NEW s \in Stages, Collect(s) PROVE ControlInv'
  <2>1. /\ UNCHANGED <<stage, errc, queues, interrupted, outcome>>
        /\ errc[s] # "none" /\ collected[s] = "none"
        /\ collected' = [collected EXCEPT ![s] = errc[s]]
    BY <1>5 DEF Collect
  <2>2. canceled' \in BOOLEAN /\ (canceled' => canceled \/ errc[s] = "failed")
    BY <1>5 DEF Collect, Cancels, ControlInv, Control
  <2>3. Control' /\ Returned' /\ Ends'
    BY <1>0, <2>1, <2>2 DEF ControlInv, Control, Returned, Ends
  <2>4. Gathered' /\ Waited' /\ Results'
    BY <2>1 DEF ControlInv, Control, Gathered, Waited, Joined, Results, Failed
  <2>5. Caused'
    BY <2>1, <2>2 DEF ControlInv, Caused, Failed
  <2>6. QED
    BY <2>3, <2>4, <2>5 DEF ControlInv
<1>6. CASE MergeLogsReturns
  <2>1. /\ UNCHANGED <<stage, errc, queues, interrupted, collected>>
        /\ Joined /\ canceled' = TRUE /\ outcome = "none"
    BY <1>6 DEF MergeLogsReturns
  <2>2. \A s \in Stages : collected[s] = errc[s]
    BY <2>1 DEF Joined, ControlInv, Gathered
  <2>3. /\ WaitError = "failed" <=> Failed
        /\ WaitError \in {"nil", "canceled", "failed"}
        /\ WaitError = "nil" => errc["scan"] = "nil"
    BY <1>0, <2>1, <2>2 DEF WaitError, Failed, Joined, Errors
  <2>4. outcome' \in Outcomes /\ outcome' # "none" /\ Results'
    BY <1>6, <2>1, <2>3 DEF MergeLogsReturns, Results, Outcomes, Failed
  <2>5. Control' /\ Returned' /\ Gathered' /\ Ends' /\ Waited'
    BY <2>1, <2>4 DEF ControlInv, Control, Returned, Gathered, Ends, Waited, Joined
  <2>6. Caused'
    BY <2>1, <2>4 DEF ControlInv, Caused, Failed
  <2>7. QED
    BY <2>4, <2>5, <2>6 DEF ControlInv
<1>7. CASE Interrupt
  <2>1. /\ UNCHANGED <<stage, errc, queues, collected, outcome>>
        /\ canceled' = TRUE /\ interrupted' = TRUE
    BY <1>7 DEF Interrupt
  <2>2. QED
    BY <2>1 DEF ControlInv, Control, Returned, Gathered, Ends, Waited, Joined, Caused,
                Results, Failed
<1>8. CASE UNCHANGED pipeVars
  BY <1>8 DEF pipeVars, caller, ControlInv, Control, Returned, Gathered, Ends, Waited, Joined,
              Caused, Results, Failed
<1>9. QED
  BY <1>1, <1>2, <1>3, <1>4, <1>5, <1>6, <1>7, <1>8 DEF PipeNext, WaitAll

\* A failure of any stage is what MergeLogs returns (Wait), whatever else the stages
\* return because of it.
THEOREM FailureReturned == PipeSpec => []NoErrorSwallowed
<1>1. ControlInv => NoErrorSwallowed
  BY DEF ControlInv, Results, NoErrorSwallowed, Failed
<1>2. QED
  BY <1>1, InitControl, NextControl, PTL DEF PipeSpec
-----------------------------------------------------------------------------
(* Flow: while no stage has dropped a file, the output, the two channels   *)
(* and the hand of Read hold the files that Walk has visited, in its order.*)
Kept == errc["read"] \in {"none", "nil"} /\ errc["merge"] \in {"none", "nil"}

Held == IF stage["read"] = "hold" THEN 1 ELSE 0
Passed == Len(merged) + Len(readers)

InOrder ==
  /\ \A i \in 1..Len(merged) : merged[i] = i
  /\ \A i \in 1..Len(readers) : readers[i] = Len(merged) + i
  /\ stage["read"] = "hold" => hand = Passed + 1
  /\ \A i \in 1..Len(paths) : paths[i] = Passed + Held + i
  /\ next = Passed + Held + Len(paths) + 1
  /\ \A f \in open : f \in Nat /\ Len(merged) < f /\ f <= Passed + Held

FlowTypes == /\ merged \in Seq(Nat) /\ readers \in Seq(Nat) /\ paths \in Seq(Nat)
             /\ hand \in Nat /\ next \in 1..(NumFiles + 1)

FlowInv == FlowTypes /\ (Kept => InOrder)

LEMMA InitFlow == PipeInit => FlowInv
<1> SUFFICES ASSUME PipeInit PROVE FlowInv
  OBVIOUS
<1>1. merged = <<>> /\ readers = <<>> /\ paths = <<>>
  BY DEF PipeInit
<1>2. /\ merged \in Seq(Nat) /\ readers \in Seq(Nat) /\ paths \in Seq(Nat)
      /\ Len(merged) = 0 /\ Len(readers) = 0 /\ Len(paths) = 0
  BY <1>1, EmptySeq
<1>3. stage["read"] = "run" /\ hand = 0 /\ next = 1 /\ open = {}
  BY DEF PipeInit, Stages
<1>4. FlowTypes
  BY <1>2, <1>3 DEF FlowTypes
<1>5. InOrder
  BY <1>2, <1>3 DEF InOrder, Held, Passed
<1>6. QED
  BY <1>4, <1>5 DEF FlowInv

LEMMA Lengths == FlowTypes => /\ Len(merged) \in Nat /\ Len(readers) \in Nat
                              /\ Len(paths) \in Nat /\ Held \in {0, 1}
BY LenProperties DEF FlowTypes, Held

\* A step that moves no file; a stage may have returned an error.
LEMMA Resting ==
  ASSUME FlowInv, UNCHANGED <<next, paths, hand, readers, open, merged>>,
         Kept' => Kept, Held' = Held, stage'["read"] = "hold" => stage["read"] = "hold"
  PROVE  FlowInv'
<1>1. FlowTypes'
  BY DEF FlowInv, FlowTypes
<1>2. Passed' = Passed
  BY DEF Passed
<1>3. InOrder => InOrder'
  BY <1>2 DEF InOrder
<1>4. QED
  BY <1>1, <1>3 DEF FlowInv

\* A stage that returns an error may drop what it has taken.
LEMMA Dropping == ASSUME FlowTypes', ~Kept' PROVE FlowInv'
BY DEF FlowInv

LEMMA SendPath == ASSUME FlowInv, ScanSend PROVE FlowInv'
<1> USE DEF ScanSend, At, Goto
<1>1. /\ FlowTypes /\ UNCHANGED <<stage, errc, hand, readers, open, merged>>
      /\ paths' = Append(paths, next) /\ next' = next + 1 /\ next <= NumFiles
  BY DEF FlowInv
<1>2. /\ paths' \in Seq(Nat) /\ Len(paths') = Len(paths) + 1
      /\ \A i \in 1..Len(paths) : paths'[i] = paths[i]
      /\ paths'[Len(paths) + 1] = next
  BY <1>1, AppendProperties DEF FlowTypes
<1>3. FlowTypes'
  BY <1>1, <1>2 DEF FlowTypes
<1>4. Held' = Held /\ Passed' = Passed /\ (Kept' <=> Kept)
  BY <1>1 DEF Held, Passed, Kept
<1>5. ASSUME InOrder PROVE InOrder'
  <2>1. Len(paths) \in Nat /\ Passed \in Nat /\ Held \in {0, 1}
    BY <1>1, Lengths DEF Passed
  <2>2. next = Passed + Held + Len(paths) + 1
    BY <1>5 DEF InOrder
  <2>3. ASSUME NEW i \in 1..Len(paths') PROVE paths'[i] = Passed + Held + i
    <3>1. CASE i \in 1..Len(paths)
      BY <1>2, <1>5, <3>1 DEF InOrder
    <3>2. CASE i = Len(paths) + 1
      BY <1>2, <2>1, <2>2, <3>2
    <3>3. QED
      BY <1>2, <2>1, <3>1, <3>2
  <2>4. next' = Passed + Held + Len(paths') + 1
    BY <1>1, <1>2, <2>1, <2>2
  <2>5. UNCHANGED <<Passed, Held, stage, hand, readers, open, merged>>
    BY <1>1, <1>4
  <2>6. \A i \in 1..Len(paths') : paths'[i] = Passed' + Held' + i
    BY <2>3, <2>5
  <2>7. QED
    BY <1>5, <2>4, <2>5, <2>6 DEF InOrder
<1>6. QED
  BY <1>3, <1>4, <1>5 DEF FlowInv

LEMMA OpenPath == ASSUME FlowInv, Control, ReadOpens PROVE FlowInv'
<1> USE DEF ReadOpens, At, Goto
<1>1. /\ FlowTypes /\ UNCHANGED <<errc, next, readers, merged>> /\ paths # <<>>
      /\ paths' = Tail(paths) /\ hand' = Head(paths) /\ open' = open \union {Head(paths)}
      /\ stage["read"] = "run" /\ stage'["read"] = "hold"
  BY DEF FlowInv, Control, Stages
<1>2. /\ paths' \in Seq(Nat) /\ Len(paths') = Len(paths) - 1 /\ Len(paths) \in Nat \ {0}
      /\ \A i \in 1..Len(paths') : paths'[i] = paths[i + 1]
      /\ hand' = paths[1] /\ hand' \in Nat
  BY <1>1, HeadTailProperties, EmptySeq DEF FlowTypes
<1>3. FlowTypes'
  BY <1>1, <1>2 DEF FlowTypes
<1>4. Held = 0 /\ Held' = 1 /\ Passed' = Passed /\ (Kept' <=> Kept) /\ Passed \in Nat
  BY <1>1, Lengths DEF Held, Passed, Kept
<1>5. ASSUME InOrder PROVE InOrder'
  <2>1. hand' = Passed + 1
    BY <1>2, <1>4, <1>5 DEF InOrder
  <2>2. \A i \in 1..Len(paths') : paths'[i] = Passed + Held' + i
    BY <1>2, <1>4, <1>5 DEF InOrder
  <2>3. next = Passed + Held' + Len(paths') + 1
    BY <1>2, <1>4, <1>5 DEF InOrder
  <2>4. \A f \in open' : f \in Nat /\ Len(merged) < f /\ f <= Passed + Held'
    BY <1>1, <1>2, <1>4, <1>5, <2>1, Lengths DEF InOrder, Passed
  <2>5. QED
    BY <1>1, <1>4, <1>5, <2>1, <2>2, <2>3, <2>4 DEF InOrder
<1>6. QED
  BY <1>3, <1>4, <1>5 DEF FlowInv

LEMMA SendReader == ASSUME FlowInv, Control, ReadSend PROVE FlowInv'
<1> USE DEF ReadSend, At, Goto
<1>1. /\ FlowTypes /\ UNCHANGED <<errc, next, paths, hand, open, merged>>
      /\ readers' = Append(readers, hand)
      /\ stage["read"] = "hold" /\ stage'["read"] = "run"
  BY DEF FlowInv, Control, Stages
<1>2. /\ readers' \in Seq(Nat) /\ Len(readers') = Len(readers) + 1
      /\ \A i \in 1..Len(readers) : readers'[i] = readers[i]
      /\ readers'[Len(readers) + 1] = hand
  BY <1>1, AppendProperties DEF FlowTypes
<1>3. FlowTypes'
  BY <1>1, <1>2 DEF FlowTypes
<1>4. Held = 1 /\ Held' = 0 /\ Passed' = Passed + 1 /\ (Kept' <=> Kept) /\ Passed \in Nat
  BY <1>1, <1>2, Lengths DEF Held, Passed, Kept
<1>5. ASSUME InOrder PROVE InOrder'
  <2>1. ASSUME NEW i \in 1..Len(readers') PROVE readers'[i] = Len(merged) + i
    <3>1. CASE i \in 1..Len(readers)
      BY <1>2, <1>5, <3>1 DEF InOrder
    <3>2. CASE i = Len(readers) + 1
      BY <1>1, <1>2, <1>5, <3>2, Lengths DEF InOrder, Passed
    <3>3. QED
      BY <1>1, <1>2, <3>1, <3>2, Lengths
  <2>2. \A f \in open : f \in Nat /\ Len(merged) < f /\ f <= Passed' + Held'
    BY <1>4, <1>5 DEF InOrder
  <2>3. QED
    BY <1>1, <1>4, <1>5, <2>1, <2>2, Lengths DEF InOrder
<1>6. QED
  BY <1>3, <1>4, <1>5 DEF FlowInv

LEMMA CopyReader == ASSUME FlowInv, Control, MergeCopies PROVE FlowInv'
<1> USE DEF MergeCopies, At, Goto
<1>1. /\ FlowTypes /\ UNCHANGED <<errc, next, paths, hand>> /\ readers # <<>>
      /\ readers' = Tail(readers) /\ merged' = Append(merged, Head(readers))
      /\ open' = open \ {Head(readers)} /\ stage'["read"] = stage["read"]
  BY DEF FlowInv, Control, Stages
<1>2. /\ readers' \in Seq(Nat) /\ Len(readers') = Len(readers) - 1
      /\ Len(readers) \in Nat \ {0}
      /\ \A i \in 1..Len(readers') : readers'[i] = readers[i + 1]
      /\ Head(readers) = readers[1] /\ Head(readers) \in Nat
  BY <1>1, HeadTailProperties, EmptySeq DEF FlowTypes
<1>3. /\ merged' \in Seq(Nat) /\ Len(merged') = Len(merged) + 1
      /\ \A i \in 1..Len(merged) : merged'[i] = merged[i]
      /\ merged'[Len(merged) + 1] = Head(readers)
  BY <1>1, <1>2, AppendProperties DEF FlowTypes
<1>4. FlowTypes'
  BY <1>1, <1>2, <1>3 DEF FlowTypes
<1>5. Held' = Held /\ Passed' = Passed /\ (Kept' <=> Kept)
  BY <1>1, <1>2, <1>3, Lengths DEF Held, Passed, Kept
<1>6. ASSUME InOrder PROVE InOrder'
  <2>1. Head(readers) = Len(merged) + 1
    BY <1>2, <1>6, Lengths, <1>1 DEF InOrder
  <2>2. \A i \in 1..Len(merged') : merged'[i] = i
    BY <1>1, <1>3, <1>6, <2>1, Lengths DEF InOrder
  <2>3. \A i \in 1..Len(readers') : readers'[i] = Len(merged') + i
    BY <1>1, <1>2, <1>3, <1>6, Lengths DEF InOrder
  <2>4. \A f \in open' : f \in Nat /\ Len(merged') < f /\ f <= Passed' + Held'
    BY <1>1, <1>3, <1>5, <1>6, <2>1, Lengths DEF InOrder
  <2>5. QED
    BY <1>1, <1>5, <1>6, <2>2, <2>3, <2>4 DEF InOrder
<1>7. QED
  BY <1>4, <1>5, <1>6 DEF FlowInv

LEMMA NextFlow == FlowInv /\ ControlInv /\ [PipeNext]_pipeVars => FlowInv'
<1> SUFFICES ASSUME FlowInv, ControlInv, [PipeNext]_pipeVars PROVE FlowInv'
  OBVIOUS
<1> USE DEF At, Goto, Return, queues, caller
<1>0. /\ stage \in [Stages -> StageStates] /\ errc \in [Stages -> Errors \union {"none"}]
      /\ {"scan", "read", "merge"} = Stages /\ FlowTypes /\ Control
      /\ \A s \in Stages : stage[s] \notin {"closing", "exited"} => errc[s] = "none"
  BY DEF ControlInv, Control, Returned, Stages, FlowInv
<1>1. CASE ScanCanceled \/ ScanFails \/ ScanEnds
  <2>1. UNCHANGED <<next, paths, hand, readers, open, merged>>
    BY <1>1 DEF ScanCanceled, ScanFails, ScanEnds
  <2>2. UNCHANGED <<stage["read"], errc["read"], errc["merge"]>>
    BY <1>0, <1>1 DEF ScanCanceled, ScanFails, ScanEnds
  <2>3. QED
    BY <2>1, <2>2, Resting DEF Held, Kept
<1>2. CASE ReadFails
  <2>1. /\ paths' = Tail(paths) /\ paths # <<>>
        /\ errc' = [errc EXCEPT !["read"] = "failed"]
        /\ UNCHANGED <<next, hand, readers, merged>>
    BY <1>2 DEF ReadFails
  <2>2. FlowTypes'
    BY <1>0, <2>1, HeadTailProperties DEF FlowTypes
  <2>3. ~Kept'
    BY <1>0, <2>1 DEF Kept
  <2>4. QED
    BY <2>2, <2>3, Dropping
<1>3. CASE ReadCanceled
  <2>1. UNCHANGED queues /\ errc' = [errc EXCEPT !["read"] = "canceled"]
    BY <1>3 DEF ReadCanceled
  <2>2. FlowTypes' /\ ~Kept'
    BY <1>0, <2>1 DEF FlowTypes, Kept
  <2>3. QED
    BY <2>2, Dropping
<1>4. CASE ReadEnds
  <2>1. UNCHANGED <<next, paths, hand, readers, open, merged>>
    BY <1>4 DEF ReadEnds
  <2>2. /\ stage["read"] = "run" /\ stage'["read"] = "closing" /\ errc["read"] = "none"
        /\ errc'["merge"] = errc["merge"]
    BY <1>0, <1>4 DEF ReadEnds
  <2>3. QED
    BY <2>1, <2>2, Resting DEF Held, Kept
<1>5. CASE MergeFails
  <2>1. /\ readers' = Tail(readers) /\ readers # <<>>
        /\ errc' = [errc EXCEPT !["merge"] = "failed"]
        /\ UNCHANGED <<next, paths, hand, merged>>
    BY <1>5 DEF MergeFails
  <2>2. FlowTypes'
    BY <1>0, <2>1, HeadTailProperties DEF FlowTypes
  <2>3. ~Kept'
    BY <1>0, <2>1 DEF Kept
  <2>4. QED
    BY <2>2, <2>3, Dropping
<1>6. CASE MergeChecks /\ canceled
  <2>1. UNCHANGED queues /\ errc' = [errc EXCEPT !["merge"] = "canceled"]
    BY <1>6 DEF MergeChecks
  <2>2. FlowTypes' /\ ~Kept'
    BY <1>0, <2>1 DEF FlowTypes, Kept
  <2>3. QED
    BY <2>2, Dropping
<1>7. CASE (MergeChecks /\ ~canceled) \/ MergeEnds
  <2>1. UNCHANGED <<next, paths, hand, readers, open, merged>>
    BY <1>7 DEF MergeChecks, MergeEnds
  <2>2. /\ stage'["read"] = stage["read"] /\ errc["merge"] = "none"
        /\ errc'["read"] = errc["read"]
    BY <1>0, <1>7 DEF MergeChecks, MergeEnds
  <2>3. QED
    BY <2>1, <2>2, Resting DEF Held, Kept
<1>8. ASSUME NEW s \in Stages, CloseOutput(s) PROVE FlowInv'
  <2>1. UNCHANGED <<errc, next, paths, hand, readers, open, merged>>
    BY <1>8 DEF CloseOutput
  <2>2. /\ stage'["read"] = "hold" <=> stage["read"] = "hold"
    BY <1>0, <1>8 DEF CloseOutput
  <2>3. QED
    BY <2>1, <2>2, Resting DEF Held, Kept
<1>9. CASE WaitAll \/ Interrupt \/ UNCHANGED pipeVars
  <2>1. UNCHANGED <<stage, errc, next, paths, hand, readers, open, merged>>
    BY <1>9 DEF WaitAll, MergeLogsReturns, Collect, Interrupt, pipeVars
  <2>2. QED
    BY <2>1, Resting DEF Held, Kept
<1>10. QED
  BY <1>0, <1>1, <1>2, <1>3, <1>4, <1>5, <1>6, <1>7, <1>8, <1>9, SendPath, OpenPath, SendReader,
     CopyReader DEF PipeNext, Scan, Read, Merge, MergeChecks

\* A report returned with no error, and no interrupt, has every file once, in the order
\* of Walk, and left no handle open; MergeLogs returns neither a report nor an error only
\* after an interrupt.
THEOREM ReportComplete == PipeSpec => []CompleteReport
<1>1. ControlInv /\ FlowInv => CompleteReport
  <2> SUFFICES ASSUME ControlInv, FlowInv PROVE CompleteReport
    OBVIOUS
  <2>0. /\ {"scan", "read", "merge"} = Stages /\ Control /\ FlowTypes
        /\ errc \in [Stages -> Errors \union {"none"}]
    BY DEF ControlInv, Control, Stages, FlowInv
  <2>1. ASSUME outcome \in {"report", "missing"}, ~interrupted
        PROVE  \A s \in Stages : errc[s] = "nil"
    <3>1. ~Failed
      BY <2>1 DEF ControlInv, Results
    <3>2. \A s \in Stages : errc[s] # "failed" /\ errc[s] # "canceled"
      BY <2>1, <3>1 DEF ControlInv, Caused, Failed
    <3>3. \A s \in Stages : errc[s] # "none"
      BY <2>1 DEF ControlInv, Waited, Joined, Gathered
    <3>4. QED
      BY <2>0, <3>2, <3>3 DEF Errors
  <2>2. ASSUME outcome = "report", ~interrupted
        PROVE  merged = [i \in Files |-> i] /\ open = {}
    <3>1. /\ paths = <<>> /\ readers = <<>> /\ next > NumFiles /\ stage["read"] = "exited"
          /\ Kept
      BY <2>0, <2>1, <2>2 DEF ControlInv, Ends, Kept
    <3>2. Len(paths) = 0 /\ Len(readers) = 0 /\ Held = 0
      BY <3>1, EmptySeq DEF Held
    <3>3. InOrder
      BY <3>1 DEF FlowInv
    <3>4. Len(merged) = NumFiles
      BY <2>0, <3>1, <3>2, <3>3, Lengths DEF InOrder, Passed, FlowTypes
    <3>5. merged \in [Files -> Nat]
      BY <2>0, <3>4, LenProperties DEF FlowTypes, Files
    <3>6. \A i \in Files : merged[i] = i
      BY <3>3, <3>4 DEF InOrder, Files
    <3>7. open = {}
      BY <2>0, <3>2, <3>3, Lengths DEF InOrder, Passed
    <3>8. QED
      BY <3>5, <3>6, <3>7
  <2>3. outcome = "missing" => interrupted /\ errc["scan"] = "nil"
    BY <2>0, <2>1 DEF ControlInv, Results, Ends
  <2>4. QED
    BY <2>2, <2>3 DEF CompleteReport
<1>2. ControlInv /\ FlowInv /\ [PipeNext]_pipeVars => (ControlInv /\ FlowInv)'
  BY NextControl, NextFlow
<1>3. PipeInit => ControlInv /\ FlowInv
  BY InitControl, InitFlow
<1>4. QED
  BY <1>1, <1>2, <1>3, PTL DEF PipeSpec
-----------------------------------------------------------------------------
(* Types: also in a run that fails, the channels hold files only, and never *)
(* more than their capacity.                                               *)
Channels == /\ next \in 1..(NumFiles + 1)
            /\ paths \in Seq(Files) /\ Len(paths) <= PathCap
            /\ readers \in Seq(Files) /\ Len(readers) <= ReaderCap
            /\ hand \in Files \union {0}
            /\ merged \in Seq(Files) /\ open \subseteq Files

\* Read has a file in its hand when it is about to send it.
Loaded == stage["read"] = "hold" => hand \in Files

ChannelInv == Channels /\ Loaded

\* At the start the channels are empty.
LEMMA InitChannels == PipeInit => ChannelInv
<1> SUFFICES ASSUME PipeInit PROVE ChannelInv
  OBVIOUS
<1>1. /\ <<>> \in Seq(Files) /\ Len(<<>>) = 0 /\ 1 \in 1..(NumFiles + 1)
      /\ 0 <= PathCap /\ 0 <= ReaderCap
  OBVIOUS
<1>2. Channels
  BY <1>1 DEF PipeInit, Channels
<1>3. Loaded
  BY DEF PipeInit, Loaded, Stages
<1>4. QED
  BY <1>2, <1>3 DEF ChannelInv

\* What sending and receiving do to a buffer.
LEMMA Buffer ==
  ASSUME NEW s \in Seq(Files)
  PROVE  /\ Len(s) \in Nat
         /\ \A f \in Files : Append(s, f) \in Seq(Files) /\ Len(Append(s, f)) = Len(s) + 1
         /\ s # <<>> => /\ Head(s) \in Files /\ Tail(s) \in Seq(Files)
                        /\ Len(Tail(s)) <= Len(s)
<1>1. Len(s) \in Nat
  BY LenProperties
<1>2. ASSUME NEW f \in Files PROVE Append(s, f) \in Seq(Files) /\ Len(Append(s, f)) = Len(s) + 1
  BY AppendProperties
<1>3. ASSUME s # <<>>
      PROVE  Head(s) \in Files /\ Tail(s) \in Seq(Files) /\ Len(Tail(s)) <= Len(s)
  BY <1>1, <1>3, HeadTailProperties
<1>4. QED
  BY <1>1, <1>2, <1>3

\* One step per action that moves a file.
LEMMA NextChannels == Control /\ ChannelInv /\ [PipeNext]_pipeVars => ChannelInv'
<1> SUFFICES ASSUME Control, ChannelInv, [PipeNext]_pipeVars PROVE ChannelInv'
  OBVIOUS
<1> USE DEF At, Goto, Return, queues, caller
<1>0. /\ Channels /\ Loaded /\ stage \in [Stages -> StageStates]
      /\ {"scan", "read", "merge"} = Stages
  BY DEF ChannelInv, Control, Stages
<1>a. /\ Len(paths) \in Nat /\ Len(readers) \in Nat /\ PathCap \in Nat /\ ReaderCap \in Nat
      /\ NumFiles \in Nat
  BY <1>0, LenProperties DEF Channels
<1>1. CASE ScanSend
  <2>1. /\ next \in Files /\ Len(paths) < PathCap /\ paths' = Append(paths, next)
        /\ next' \in 1..(NumFiles + 1)
        /\ UNCHANGED <<stage, hand, readers, open, merged>>
    BY <1>0, <1>1 DEF ScanSend, Channels, Files
  <2>2. paths' \in Seq(Files) /\ Len(paths') <= PathCap
    BY <1>0, <1>a, <2>1, Buffer DEF Channels
  <2>3. QED
    BY <1>0, <2>1, <2>2 DEF ChannelInv, Channels, Loaded
<1>2. CASE ReadOpens \/ ReadFails
  <2>1. /\ paths # <<>> /\ paths' = Tail(paths) /\ open' \subseteq open \union {Head(paths)}
        /\ UNCHANGED <<next, readers, merged>>
        /\ hand' = Head(paths) \/ (hand' = hand /\ stage'["read"] = "closing")
    BY <1>0, <1>2 DEF ReadOpens, ReadFails
  <2>2. Head(paths) \in Files /\ paths' \in Seq(Files) /\ Len(paths') <= PathCap
    BY <1>0, <1>a, <2>1, Buffer DEF Channels
  <2>3. QED
    BY <1>0, <2>1, <2>2 DEF ChannelInv, Channels, Loaded
<1>3. CASE ReadSend
  <2>1. /\ hand \in Files /\ Len(readers) < ReaderCap /\ readers' = Append(readers, hand)
        /\ stage'["read"] = "run"
        /\ UNCHANGED <<next, paths, hand, open, merged>>
    BY <1>0, <1>3 DEF ReadSend, ReaderRoom, Loaded
  <2>2. readers' \in Seq(Files) /\ Len(readers') <= ReaderCap
    BY <1>0, <1>a, <2>1, Buffer DEF Channels
  <2>3. QED
    BY <1>0, <2>1, <2>2 DEF ChannelInv, Channels, Loaded
<1>4. CASE MergeCopies \/ MergeFails
  <2>1. /\ readers # <<>> /\ readers' = Tail(readers) /\ open' \subseteq open
        /\ merged' \in {merged, Append(merged, Head(readers))}
        /\ stage'["read"] = stage["read"]
        /\ UNCHANGED <<next, paths, hand>>
    BY <1>0, <1>4 DEF MergeCopies, MergeFails
  <2>2. Head(readers) \in Files /\ readers' \in Seq(Files) /\ Len(readers') <= ReaderCap
    BY <1>0, <1>a, <2>1, Buffer DEF Channels
  <2>3. merged' \in Seq(Files)
    BY <1>0, <2>1, <2>2, Buffer DEF Channels
  <2>4. QED
    BY <1>0, <2>1, <2>2, <2>3 DEF ChannelInv, Channels, Loaded
<1>5. ASSUME UNCHANGED <<next, paths, hand, readers, open, merged>>,
             stage'["read"] = "hold" => stage["read"] = "hold"
      PROVE  ChannelInv'
  BY <1>0, <1>5 DEF ChannelInv, Channels, Loaded
<1>6. CASE \/ ScanCanceled \/ ScanFails \/ ScanEnds \/ ReadCanceled \/ ReadEnds
           \/ MergeChecks \/ MergeEnds
  BY <1>0, <1>5, <1>6
     DEF ScanCanceled, ScanFails, ScanEnds, ReadCanceled, ReadEnds, MergeChecks, MergeEnds
<1>7. ASSUME NEW s \in Stages, CloseOutput(s) PROVE ChannelInv'
  BY <1>0, <1>5, <1>7 DEF CloseOutput
<1>8. CASE WaitAll \/ Interrupt \/ UNCHANGED pipeVars
  BY <1>5, <1>8 DEF WaitAll, MergeLogsReturns, Collect, Interrupt, pipeVars
<1>9. QED
  BY <1>1, <1>2, <1>3, <1>4, <1>6, <1>7, <1>8 DEF PipeNext, Scan, Read, Merge

\* Whatever fails, the channels paths and readers hold files of the walk and never more
\* than their capacity, and each goroutine is where its error says (Scan, Read, Merge).
THEOREM ChannelsBounded == PipeSpec => []PipeTypeOK
<1>1. Control /\ ChannelInv => PipeTypeOK
  BY DEF Control, ChannelInv, Channels, PipeTypeOK
<1>2. ControlInv /\ ChannelInv /\ [PipeNext]_pipeVars => (ControlInv /\ ChannelInv)'
  BY NextControl, NextChannels DEF ControlInv
<1>3. PipeInit => ControlInv /\ ChannelInv
  BY InitControl, InitChannels
<1>4. ControlInv => Control
  BY DEF ControlInv
<1>5. QED
  BY <1>1, <1>2, <1>3, <1>4, PTL DEF PipeSpec
=============================================================================
