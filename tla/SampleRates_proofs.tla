------------------------- MODULE SampleRates_proofs -------------------------
(***************************************************************************)
(* Theorems about SampleRates, with the reports of SampleReports beside it, *)
(* for any handlers, uris, rates, times of expiry and reports, and any      *)
(* number of requests, failing writes and restarts.                        *)
(***************************************************************************)
EXTENDS SampleReports, FiniteSetTheorems, TLAPS

USE RatesAssumption
-----------------------------------------------------------------------------
(* Types.                                                                  *)
AtMap == {"lock", "write", "check"}

Types == /\ pc \in [Handlers -> HandlerStates]
         /\ req \in [Handlers -> Requests]
         /\ seen \in [Handlers -> Config]
         /\ config \in [Processes -> Config]
         /\ file \in [is : {"absent", "empty", "garbled", "whole"}, config : Config]
         /\ state \in [Processes -> ProcessStates] /\ overlap \in BOOLEAN
         /\ alone \in SUBSET Handlers
         /\ \A h \in Handlers : pc[h] \in AtMap => req[h].op \in {"add", "del"}

\* Only add_uri_rate and del_uri_rate come to the map with the intent to change it.
LEMMA ChangeType ==
  ASSUME NEW r \in Requests, r.op \in {"add", "del"}
  PROVE  r.uri \in Uris /\ r.rate \in Rates \union {NoRate}
BY DEF Requests

LEMMA StepType ==
  ASSUME NEW r \in Requests
  PROVE  /\ FirstStep(r) \in {"lock", "check", "dump", "rlock"}
         /\ FirstStep(r) \in AtMap => r.op \in {"add", "del"}
         /\ r.op = "expire" => r.value \in Expires /\ FirstStep(r) = "dump"
BY DEF Requests, FirstStep, AtMap

LEMMA InitTypes == Init => Types
<1> SUFFICES ASSUME Init PROVE Types
  OBVIOUS
<1>1. Default \in Config
  BY DEF Default, Config
<1>2. [op |-> "pull"] \in Requests
  BY DEF Requests
<1>3. QED
  BY <1>1, <1>2 DEF Init, Types, HandlerStates, ProcessStates, AtMap

LEMMA NextTypes == Types /\ [Next]_vars => Types'
<1> SUFFICES ASSUME Types, [Next]_vars PROVE Types'
  OBVIOUS
<1> USE DEF Types, HandlerStates, Changing, AtMap, Goto, Own, ProcessStates, history, bounds
<1>0. Default \in Config
  BY DEF Default, Config
<1>1. ASSUME NEW h \in Handlers, Request(h) PROVE Types'
  <2>1. PICK r \in Requests : /\ req' = [req EXCEPT ![h] = r]
                              /\ Goto(h, FirstStep(r))
                              /\ config' = IF r.op = "expire"
                                THEN [config EXCEPT ![Process[h]].expire = r.value]
                                ELSE config
    BY <1>1 DEF Request
  <2>2. config' \in [Processes -> Config]
    BY <2>1, StepType DEF Config
  <2>3. pc' \in [Handlers -> HandlerStates]
    BY <2>1, StepType
  <2>4. UNCHANGED <<seen, file, state, overlap, alone>>
    BY <1>1 DEF Request
  <2>5. \A g \in Handlers : pc'[g] \in AtMap => req'[g].op \in {"add", "del"}
    BY <2>1, StepType
  <2>6. QED
    BY <2>1, <2>2, <2>3, <2>4, <2>5
<1>2. ASSUME NEW h \in Handlers, Lock(h) PROVE Types'
  BY <1>2 DEF Lock
<1>3. ASSUME NEW h \in Handlers, Write(h) PROVE Types'
  <2>1. config' \in [Processes -> Config]
    BY <1>3, ChangeType DEF Write, Config
  <2>2. QED
    BY <1>3, <2>1 DEF Write, Dumped
<1>4. ASSUME NEW h \in Handlers, Check(h) PROVE Types'
  BY <1>4 DEF Check
<1>5. ASSUME NEW h \in Handlers, Pull(h) PROVE Types'
  BY <1>5 DEF Pull, ReadLock, ReadUnlock, NotSampled
<1>6. ASSUME NEW h \in Handlers, MarshalBegins(h) PROVE Types'
  BY <1>6 DEF MarshalBegins
<1>7. ASSUME NEW h \in Handlers, MarshalEnds(h) PROVE Types'
  <2>1. PICK new \in SUBSET Uris, e \in {seen[h].expire, Own(h).expire} :
          seen' = [seen EXCEPT ![h] =
            [rates |-> [u \in Uris |-> IF u \in new THEN Own(h).rates[u]
                                                    ELSE seen[h].rates[u]],
             expire |-> e]]
    BY <1>7 DEF MarshalEnds
  <2>2. seen'[h] \in Config /\ seen' \in [Handlers -> Config]
    BY <2>1 DEF Config
  <2>3. QED
    BY <1>7, <2>2 DEF MarshalEnds
<1>8. ASSUME NEW h \in Handlers, Truncate(h) PROVE Types'
  BY <1>8 DEF Truncate
<1>9. ASSUME NEW h \in Handlers, WriteFile(h) PROVE Types'
  <2>1. file' \in [is : {"absent", "empty", "garbled", "whole"}, config : Config]
    BY <1>9 DEF WriteFile
  <2>2. QED
    BY <1>9, <2>1 DEF WriteFile
<1>10. ASSUME NEW h \in Handlers, WriteFails(h) PROVE Types'
  BY <1>10 DEF WriteFails
<1>11. ASSUME NEW p \in Processes, Dies(p) PROVE Types'
  BY <1>11 DEF Dies
<1>12. ASSUME NEW p \in Processes, Start(p) \/ Fork(p) PROVE Types'
  <2>1. Loaded \in Config
    BY <1>0 DEF Loaded, Saved
  <2>2. QED
    BY <1>12, <2>1 DEF Start, Fork, init
<1>15. ASSUME NEW p \in Processes, Serve(p) \/ Shutdown(p) PROVE Types'
  BY <1>15 DEF Serve, Shutdown
<1>13. CASE UNCHANGED vars
  BY <1>13 DEF vars
<1>14. QED
  BY <1>1, <1>2, <1>3, <1>4, <1>5, <1>6, <1>7, <1>8, <1>9, <1>10, <1>11, <1>12, <1>13,
     <1>15 DEF Next, Handle, Change, Dump, Live, Exit, MapRace, Killed
-----------------------------------------------------------------------------
(* The reports leave the rates alone.                                      *)
Apart == {"idle", "rows", "points"}

ReportStep == /\ \E h \in Handlers :
                   \/ pc' = pc
                   \/ /\ pc[h] \in Apart /\ \E s \in Apart : Goto(h, s)
                      /\ pc[h] # "idle" \/ Up(Process[h])
              /\ UNCHANGED rates

\* A step of a report handler moves between states outside the map and the file.
LEMMA Reporting ==
  ASSUME NEW h \in Handlers, Report(h)
  PROVE  ReportStep
<1> USE DEF ReportStep, Apart, Up, Accepts
<1>1. CASE report_uri_stat(h)
  BY <1>1 DEF report_uri_stat
<1>2. CASE save_db(h)
  BY <1>2 DEF save_db
<1>3. CASE RowsSaved(h)
  BY <1>3 DEF RowsSaved
<1>4. CASE WritesPoints(h)
  BY <1>4 DEF WritesPoints
<1>5. CASE Answer(h)
  BY <1>5 DEF Answer
<1>6. QED
  BY <1>1, <1>2, <1>3, <1>4, <1>5 DEF Report, save_sample_rtt_stat

\* Every step is one of SampleRates, one that leaves its variables, or a ReportStep.
LEMMA Steps ==
  ASSUME [ReportsNext]_allVars
  PROVE  [Next]_vars \/ ReportStep
<1>1. CASE Tick
  BY <1>1 DEF Tick
<1>2. CASE UNCHANGED allVars
  BY <1>2 DEF allVars
<1>3. CASE \E h \in Handlers : Report(h)
  BY <1>3, Reporting
<1>4. QED
  BY <1>1, <1>2, <1>3 DEF ReportsNext

LEMMA ReportTypes == Types /\ ReportStep => Types'
<1> SUFFICES ASSUME Types, ReportStep PROVE Types'
  OBVIOUS
<1> USE DEF Types, ReportStep, Apart, HandlerStates, Changing, AtMap, Goto, rates, history
<1>1. CASE pc' = pc
  BY <1>1
<1>2. ASSUME NEW h \in Handlers, NEW s \in Apart, Goto(h, s) PROVE Types'
  BY <1>2
<1>3. QED
  BY <1>1, <1>2

\* Whatever Init and every step of SampleRates and of the reports keep, holds.
THEOREM RatesTyped == ReportsSpec => []Types
<1>1. ReportsInit => Types
  BY InitTypes DEF ReportsInit
<1>2. Types /\ [ReportsNext]_allVars => Types'
  BY NextTypes, ReportTypes, Steps
<1>3. QED
  BY <1>1, <1>2, PTL DEF ReportsSpec
-----------------------------------------------------------------------------
(* The lock: while one goroutine writes the map of a process, no pull      *)
(* reads it, and no goroutine outlives its process.                        *)
Excluded == \A g, h \in Handlers :
  Process[g] = Process[h] /\ pc[g] = "write" => pc[h] # "read"
DiesWithProcess == \A h \in Handlers : ~Up(Process[h]) => pc[h] = "idle"
Agree == \A h \in Handlers : pc[h] = "read" => seen[h].rates = Own(h).rates
LockInv == Types /\ Excluded /\ DiesWithProcess /\ Agree

LEMMA NextLock == LockInv /\ [Next]_vars => LockInv'
<1> SUFFICES ASSUME LockInv, [Next]_vars PROVE LockInv'
  OBVIOUS
<1> USE DEF LockInv, Excluded, DiesWithProcess, Agree, Types, Goto, Own, Up, history, bounds
<1>0. Types'
  BY NextTypes
<1>a. ASSUME NEW h \in Handlers, Request(h) PROVE LockInv'
  <2>1. PICK r \in Requests : /\ Goto(h, FirstStep(r))
                              /\ config' = IF r.op = "expire"
                                THEN [config EXCEPT ![Process[h]].expire = r.value]
                                ELSE config
    BY <1>a DEF Request
  <2>2. \A g \in Handlers : config'[Process[g]].rates = config[Process[g]].rates
    BY <2>1 DEF Config
  <2>3. pc'[h] # "write" /\ pc'[h] # "read"
    BY <2>1, StepType
  <2>4. QED
    BY <1>0, <1>a, <2>1, <2>2, <2>3 DEF Request, Accepts
<1>b. ASSUME NEW h \in Handlers, Lock(h) PROVE LockInv'
  BY <1>0, <1>b DEF Lock, LockFree, In, Of
<1>c. ASSUME NEW h \in Handlers, Write(h) PROVE LockInv'
  BY <1>0, <1>c DEF Write, Dumped
<1>d. ASSUME NEW h \in Handlers, Check(h) PROVE LockInv'
  BY <1>0, <1>d DEF Check
<1>e. ASSUME NEW h \in Handlers, ReadLock(h) PROVE LockInv'
  BY <1>0, <1>e DEF ReadLock, ReadLockFree, In, Of
<1>f. ASSUME NEW h \in Handlers, ReadUnlock(h) \/ NotSampled(h) PROVE LockInv'
  <2>1. UNCHANGED <<seen, config, state>>
    BY <1>f DEF ReadUnlock, NotSampled
  <2>2. pc' = [pc EXCEPT ![h] = "idle"]
    BY <1>f DEF ReadUnlock, NotSampled
  <2>3. QED
    BY <1>0, <1>f, <2>1, <2>2
<1>g. ASSUME NEW h \in Handlers, MarshalBegins(h) PROVE LockInv'
  BY <1>0, <1>g DEF MarshalBegins
<1>h. ASSUME NEW h \in Handlers, MarshalEnds(h) PROVE LockInv'
  <2>1. pc' = [pc EXCEPT ![h] = "encoded"] /\ UNCHANGED <<config, state>> /\ pc[h] # "idle"
    BY <1>h DEF MarshalEnds
  <2>2. \A g \in Handlers : g # h => seen'[g] = seen[g]
    BY <1>h DEF MarshalEnds
  <2>3. QED
    BY <1>0, <1>h, <2>1, <2>2
<1>i. ASSUME NEW h \in Handlers, Truncate(h) \/ WriteFile(h) \/ WriteFails(h)
      PROVE  LockInv'
  <2>1. UNCHANGED <<seen, config, state>>
    BY <1>i DEF Truncate, WriteFile, WriteFails
  <2>2. pc[h] # "idle" /\ \E s \in {"truncated", "idle"} : pc' = [pc EXCEPT ![h] = s]
    BY <1>i DEF Truncate, WriteFile, WriteFails
  <2>3. QED
    BY <1>0, <1>i, <2>1, <2>2
<1>j. ASSUME NEW p \in Processes, Dies(p) PROVE LockInv'
  BY <1>0, <1>j DEF Dies
<1>k. ASSUME NEW p \in Processes, Start(p) \/ Fork(p) PROVE LockInv'
  <2>1. PICK q \in Processes : ~Up(q) /\ config' = [config EXCEPT ![q] = Loaded]
    BY <1>k DEF Start, Fork, init
  <2>2. \A g \in Handlers : pc[g] = "read" => UNCHANGED config[Process[g]]
    BY <2>1
  <2>3. \A x \in Processes : Up(x) => state'[x] # "down"
    BY <1>k DEF Start, Fork
  <2>4. QED
    BY <1>0, <1>k, <2>2, <2>3 DEF Start, Fork, init
<1>n. ASSUME NEW p \in Processes, Serve(p) \/ Shutdown(p) PROVE LockInv'
  BY <1>0, <1>n DEF Serve, Shutdown
<1>l. CASE UNCHANGED vars
  BY <1>0, <1>l DEF vars
<1>m. QED
  BY <1>a, <1>b, <1>c, <1>d, <1>e, <1>f, <1>g, <1>h, <1>i, <1>j, <1>k, <1>l,
     <1>n DEF Next, Handle, Change, Pull, Dump, Live, Exit, MapRace, Killed

LEMMA ReportLock == LockInv /\ ReportStep => LockInv'
<1> SUFFICES ASSUME LockInv, ReportStep PROVE LockInv'
  OBVIOUS
<1>0. Types'
  BY ReportTypes DEF LockInv
<1>1. \A g \in Handlers : /\ pc'[g] = "write" => pc[g] = "write"
                          /\ pc'[g] = "read" => pc[g] = "read"
                          /\ ~Up(Process[g]) => pc'[g] = "idle"
  BY DEF ReportStep, Goto, Apart, LockInv, Types, DiesWithProcess
<1>2. QED
  BY <1>0, <1>1
     DEF LockInv, Excluded, DiesWithProcess, Agree, ReportStep, rates, Own, Up

LEMMA LockMoves == LockInv /\ [ReportsNext]_allVars => LockInv'
<1> SUFFICES ASSUME LockInv, [ReportsNext]_allVars PROVE LockInv'
  OBVIOUS
<1>1. CASE \E h \in Handlers : Report(h)
  BY <1>1, Reporting, ReportLock
<1>2. CASE [Next]_vars
  BY <1>2, NextLock
<1>3. QED
  BY <1>1, <1>2 DEF ReportsNext, Tick, allVars

\* No add, delete or restart changes the map between the rates a pull reads.
THEOREM PullsAgree == ReportsSpec => []PullConsistent
<1>1. ReportsInit => LockInv
  BY InitTypes DEF ReportsInit, Init, LockInv, Excluded, DiesWithProcess, Agree, Up
<1>2. LockInv /\ [ReportsNext]_allVars => LockInv'
  BY LockMoves
<1>3. LockInv => PullConsistent
  BY DEF LockInv, Agree, PullConsistent, In
<1>4. QED
  BY <1>1, <1>2, <1>3, PTL DEF ReportsSpec

\* The lock has one writer, and no more requests and faults than the bounds say.
OneWriter == \A g, h \in Handlers :
  Process[g] = Process[h] /\ pc[g] = "write" /\ pc[h] = "write" => g = h
Bounded == requests \in 0..MaxRequests /\ faults \in 0..MaxFaults

LEMMA BoundsMove ==
  ASSUME Bounded, [ReportsNext]_allVars
  PROVE  Bounded'
<1> USE DEF Bounded, bounds
<1>1. ASSUME NEW h \in Handlers, Request(h) \/ WriteFails(h) PROVE Bounded'
  BY <1>1 DEF Request, WriteFails
<1>2. ASSUME NEW h \in Handlers, Handle(h) PROVE Bounded'
  BY <1>2 DEF Handle, Change, Lock, Write, Check, Pull, ReadLock, ReadUnlock, NotSampled,
              Dump, MarshalBegins, MarshalEnds, Truncate, WriteFile
<1>3. ASSUME NEW p \in Processes, Live(p) \/ MapRace(p) \/ Killed(p) PROVE Bounded'
  BY <1>3 DEF Live, Start, Fork, init, Serve, Shutdown, Exit, MapRace, Killed, Dies
<1>4. ASSUME NEW h \in Handlers, Report(h) PROVE Bounded'
  BY <1>4 DEF Report, report_uri_stat, save_sample_rtt_stat, save_db, RowsSaved,
              WritesPoints, Answer, Fails
<1>5. CASE Tick \/ UNCHANGED allVars
  BY <1>5 DEF Tick, allVars, vars
<1>6. QED
  BY <1>1, <1>2, <1>3, <1>4, <1>5 DEF ReportsNext, Next

\* Who writes the map has found nobody who does.
LEMMA WritersMove ==
  ASSUME Types, OneWriter, [ReportsNext]_allVars
  PROVE  OneWriter'
<1> USE DEF OneWriter, Types, Goto
<1>1. ASSUME NEW h \in Handlers, Lock(h) PROVE OneWriter'
  BY <1>1 DEF Lock, LockFree, In, Of
<1>2. ASSUME \A g \in Handlers : pc'[g] = "write" => pc[g] = "write" PROVE OneWriter'
  BY <1>2
<1>3. ASSUME NEW h \in Handlers, Request(h) PROVE OneWriter'
  <2>1. PICK r \in Requests : Goto(h, FirstStep(r))
    BY <1>3 DEF Request
  <2>2. FirstStep(r) # "write"
    BY StepType
  <2>3. QED
    BY <1>2, <2>1, <2>2
<1>4. ASSUME NEW h \in Handlers, Handle(h) \/ WriteFails(h), ~Lock(h) PROVE OneWriter'
  <2>1. pc' = [pc EXCEPT ![h] = pc'[h]] /\ pc'[h] # "write"
    BY <1>4 DEF Handle, Change, Write, Dumped, Check, Pull, ReadLock, ReadUnlock,
                NotSampled, Dump, MarshalBegins, MarshalEnds, Truncate, WriteFile, WriteFails
  <2>2. QED
    BY <1>2, <2>1
<1>5. ASSUME NEW p \in Processes, Live(p) \/ MapRace(p) \/ Killed(p) PROVE OneWriter'
  BY <1>2, <1>5 DEF Live, Start, Fork, init, Serve, Shutdown, Exit, MapRace, Killed, Dies
<1>6. ASSUME NEW h \in Handlers, Report(h) PROVE OneWriter'
  BY <1>2, <1>6, Reporting DEF ReportStep, Apart
<1>7. CASE Tick \/ UNCHANGED allVars
  BY <1>7 DEF Tick, allVars, vars
<1>8. QED
  BY <1>1, <1>3, <1>4, <1>5, <1>6, <1>7 DEF ReportsNext, Next

\* The lock is one of readers and writers: many read or one writes.
THEOREM LockRight == ReportsSpec => []TypeOK
<1>1. ReportsInit => LockInv /\ OneWriter /\ Bounded
  BY InitTypes DEF ReportsInit, Init, LockInv, Excluded, DiesWithProcess, Agree,
                   OneWriter, Bounded, Up
<1>2. LockInv /\ OneWriter /\ Bounded /\ [ReportsNext]_allVars
        => (LockInv /\ OneWriter /\ Bounded)'
  BY LockMoves, WritersMove, BoundsMove DEF LockInv
<1>3. LockInv /\ OneWriter /\ Bounded => TypeOK
  <2> SUFFICES ASSUME LockInv, OneWriter, Bounded PROVE TypeOK
    OBVIOUS
  <2>1. ASSUME NEW p \in Processes, In({"write"}) \intersect Of(p) # {}
        PROVE  /\ In({"read"}) \intersect Of(p) = {}
               /\ Cardinality(In({"write"}) \intersect Of(p)) = 1
    <3>1. PICK h \in Handlers : pc[h] = "write" /\ Process[h] = p
      BY <2>1 DEF In, Of
    <3>2. In({"write"}) \intersect Of(p) = {h}
      BY <3>1 DEF OneWriter, In, Of
    <3>3. In({"read"}) \intersect Of(p) = {}
      BY <3>1 DEF LockInv, Excluded, In, Of
    <3>4. QED
      BY <3>2, <3>3, FS_Singleton
  <2>2. QED
    BY <2>1 DEF LockInv, Types, Bounded, TypeOK
<1>4. QED
  BY <1>1, <1>2, <1>3, PTL DEF ReportsSpec
-----------------------------------------------------------------------------
(* The file.  Who is about to dump, who does, and what alone and overlap,  *)
(* the history of the dumps, stand for.                                    *)
Pending(h) == pc[h] \in {"lock", "write", "check", "dump"}
Dumps(h) == pc[h] \in {"marshal", "encoded", "truncated"}

\* The one that dumps alone is the only one, has what its process has unless that is to
\* be dumped again, and finds the file as it left it.
AloneDumps ==
  \A h \in alone : Dumps(h) =>
    /\ \A g \in Handlers : Dumps(g) => g = h
    /\ (\A g \in Handlers : Process[g] = Process[h] => ~Pending(g)) => seen[h] = Own(h)
    /\ pc[h] = "truncated" => file.is = "empty"

\* Without an overlap whoever dumps is alone, and what is not to be dumped is in the file.
AllAlone == ~overlap => \A h \in Handlers : Dumps(h) => h \in alone
Stored == DefaultConf /\ ~overlap /\ (\A h \in Handlers : ~Pending(h) /\ ~Dumps(h)) =>
            \A p \in Processes : Up(p) => config[p] = Saved

FileInv == Types /\ DiesWithProcess /\ AloneDumps /\ AllAlone /\ Stored

\* A step that keeps the config, the file, the history and who is at work keeps FileInv.
LEMMA Untouched ==
  ASSUME FileInv, Types', UNCHANGED <<seen, config, file, state, alone, overlap>>,
         \A h \in Handlers : /\ ~Up(Process[h]) => pc'[h] = "idle"
                             /\ Pending(h)' <=> Pending(h)
                             /\ pc'[h] = pc[h] \/ (~Dumps(h) /\ ~Dumps(h)')
  PROVE  FileInv'
<1>1. \A h \in Handlers : Dumps(h)' <=> Dumps(h)
  BY DEF Dumps
<1>2. \A h \in Handlers : Dumps(h) => pc'[h] = pc[h]
  OBVIOUS
<1>3. AloneDumps'
  BY <1>1, <1>2 DEF FileInv, AloneDumps, Types, Own
<1>4. AllAlone' /\ Stored' /\ DiesWithProcess'
  BY <1>1 DEF FileInv, AllAlone, Stored, Saved, DiesWithProcess, Up
<1>5. QED
  BY <1>3, <1>4 DEF FileInv

LEMMA NextDies == Types /\ DiesWithProcess /\ [Next]_vars => DiesWithProcess'
<1> SUFFICES ASSUME Types, DiesWithProcess, [Next]_vars PROVE DiesWithProcess'
  OBVIOUS
<1> USE DEF Types, DiesWithProcess, Goto, Up, history, bounds
<1>1. ASSUME NEW h \in Handlers, Request(h) PROVE DiesWithProcess'
  BY <1>1 DEF Request, Accepts
<1>2. ASSUME NEW h \in Handlers, Handle(h) \/ WriteFails(h) PROVE DiesWithProcess'
  <2>1. pc[h] # "idle" /\ UNCHANGED state /\ \A g \in Handlers : g # h => pc'[g] = pc[g]
    BY <1>2 DEF Handle, Change, Lock, Write, Check, Pull, ReadLock, ReadUnlock, NotSampled,
                Dump, MarshalBegins, MarshalEnds, Truncate, WriteFile, WriteFails
  <2>2. QED
    BY <2>1
<1>3. ASSUME NEW p \in Processes, Live(p) \/ MapRace(p) \/ Killed(p) PROVE DiesWithProcess'
  BY <1>3 DEF Live, Start, Fork, init, Serve, Shutdown, Accepts, Exit, MapRace, Killed, Dies
<1>4. CASE UNCHANGED vars
  BY <1>4 DEF vars
<1>5. QED
  BY <1>1, <1>2, <1>3, <1>4 DEF Next

LEMMA NextFile == FileInv /\ [Next]_vars => FileInv'
<1> SUFFICES ASSUME FileInv, [Next]_vars PROVE FileInv'
  OBVIOUS
<1> USE DEF Goto, history, bounds, Own, Up, Accepts, Saved
<1>t. /\ Types /\ Types' /\ DiesWithProcess /\ DiesWithProcess'
      /\ \A h \in Handlers : pc[h] # "idle" => Up(Process[h])
  BY NextTypes, NextDies DEF FileInv, DiesWithProcess
<1>p. pc \in [Handlers -> HandlerStates]
  BY <1>t DEF Types
<1>a. ASSUME NEW h \in Handlers, Request(h) PROVE FileInv'
  <2>1. PICK r \in Requests : /\ Goto(h, FirstStep(r))
                              /\ config' = IF r.op = "expire"
                                THEN [config EXCEPT ![Process[h]].expire = r.value]
                                ELSE config
    BY <1>a DEF Request
  <2>2. pc[h] = "idle" /\ UNCHANGED <<seen, file, state, alone, overlap>>
    BY <1>a DEF Request
  <2>3. CASE FirstStep(r) = "rlock"
    <3>1. UNCHANGED config
      BY <2>1, <2>3, StepType
    <3>2. QED
      BY <1>t, <1>p, <1>a, <2>1, <2>2, <2>3, <3>1, Untouched
         DEF Pending, Dumps, DiesWithProcess
  <2>4. CASE FirstStep(r) # "rlock"
    <3>1. Pending(h)' /\ \A g \in Handlers : Dumps(g)' <=> Dumps(g)
      BY <1>p, <2>1, <2>2, <2>4, StepType DEF Pending, Dumps
    <3>2. \A g \in Handlers : Dumps(g) => pc'[g] = pc[g]
      BY <1>p, <2>1, <2>2 DEF Dumps
    <3>4. \A g \in Handlers : Process[g] # Process[h] => Own(g)' = Own(g)
      BY <1>t, <2>1 DEF Types
    <3>5. \A g \in Handlers : Process[g] # Process[h] => (Pending(g)' <=> Pending(g))
      BY <1>p, <2>1 DEF Pending
    <3>6. AloneDumps'
      BY <1>t, <2>2, <3>1, <3>2, <3>4, <3>5 DEF FileInv, AloneDumps, Types
    <3>3. QED
      BY <1>t, <2>2, <3>1, <3>6 DEF FileInv, AllAlone, Stored
  <2>5. QED
    BY <2>3, <2>4
<1>b. ASSUME NEW h \in Handlers, Lock(h) \/ Write(h) \/ Check(h) PROVE FileInv'
  <2>1. UNCHANGED <<seen, file, state, alone, overlap>>
    BY <1>b DEF Lock, Write, Check
  <2>2. Pending(h)' /\ \A g \in Handlers : Dumps(g)' <=> Dumps(g)
    BY <1>p, <1>b DEF Lock, Write, Check, Dumped, Pending, Dumps
  <2>3. \A g \in Handlers : Dumps(g) => pc'[g] = pc[g]
    BY <1>p, <1>b DEF Lock, Write, Check, Dumps
  <2>5. \A g \in Handlers : Process[g] # Process[h] => Own(g)' = Own(g)
    BY <1>t, <1>b DEF Lock, Write, Check, Types
  <2>6. \A g \in Handlers : Process[g] # Process[h] => (Pending(g)' <=> Pending(g))
    BY <1>p, <1>b DEF Lock, Write, Check, Pending
  <2>7. AloneDumps'
    BY <1>t, <2>1, <2>2, <2>3, <2>5, <2>6 DEF FileInv, AloneDumps, Types
  <2>4. QED
    BY <1>t, <2>1, <2>2, <2>7 DEF FileInv, AllAlone, Stored
<1>d. ASSUME NEW h \in Handlers, ReadUnlock(h) \/ NotSampled(h) PROVE FileInv'
  <2>1. UNCHANGED <<seen, config, file, state, alone, overlap>>
    BY <1>d DEF ReadUnlock, NotSampled
  <2>2. QED
    BY <1>t, <1>p, <1>d, <2>1, Untouched DEF ReadUnlock, NotSampled, Pending, Dumps
<1>e. ASSUME NEW h \in Handlers, ReadLock(h) PROVE FileInv'
  <2>1. \A g \in Handlers : (Dumps(g)' <=> Dumps(g)) /\ (Pending(g)' <=> Pending(g))
    BY <1>p, <1>e DEF ReadLock, Dumps, Pending
  <2>2. \A g \in Handlers : Dumps(g) => pc'[g] = pc[g] /\ seen'[g] = seen[g]
    BY <1>p, <1>e DEF ReadLock, Dumps
  <2>3. UNCHANGED <<config, file, state, alone, overlap>>
    BY <1>e DEF ReadLock
  <2>4. QED
    BY <1>t, <1>e, <2>1, <2>2, <2>3
       DEF FileInv, AloneDumps, AllAlone, Stored, Types
<1>g. ASSUME NEW h \in Handlers, MarshalBegins(h) PROVE FileInv'
  <2>1. Dumps(h)' /\ seen'[h] = Own(h)' /\ pc'[h] = "marshal"
    BY <1>t, <1>p, <1>g DEF MarshalBegins, Dumps, Types
  <2>2. UNCHANGED <<config, file, state>>
    BY <1>g DEF MarshalBegins
  <2>3. \A g \in Handlers : g # h => (Dumps(g)' <=> Dumps(g))
    BY <1>p, <1>g DEF MarshalBegins, Dumps
  <2>4. CASE Dumping = {}
    <3>1. alone' = {h} /\ \A g \in Handlers : ~Dumps(g)
      BY <1>g, <2>4 DEF MarshalBegins, Dumping, In, Dumps
    <3>2. QED
      BY <1>t, <1>g, <2>1, <2>2, <2>3, <3>1
         DEF FileInv, AloneDumps, AllAlone, Stored
  <2>5. CASE Dumping # {}
    <3>1. alone' = {} /\ overlap'
      BY <1>g, <2>5 DEF MarshalBegins
    <3>2. QED
      BY <1>t, <1>g, <2>1, <2>2, <3>1
         DEF FileInv, AloneDumps, AllAlone, Stored
  <2>6. QED
    BY <2>4, <2>5
<1>h. ASSUME NEW h \in Handlers, MarshalEnds(h) PROVE FileInv'
  <2>1. PICK new \in SUBSET Uris, e \in {seen[h].expire, Own(h).expire} :
          seen' = [seen EXCEPT ![h] =
            [rates |-> [u \in Uris |-> IF u \in new THEN Own(h).rates[u]
                                                    ELSE seen[h].rates[u]],
             expire |-> e]]
    BY <1>h DEF MarshalEnds
  <2>2. seen[h] = Own(h) => seen'[h] = Own(h)
    <3> SUFFICES ASSUME seen[h] = Own(h) PROVE seen'[h] = Own(h)
      OBVIOUS
    <3> DEFINE own == Own(h)
    <3>1. e = own.expire
      BY <2>1
    <3>2. [u \in Uris |-> IF u \in new THEN own.rates[u] ELSE seen[h].rates[u]]
            = [u \in Uris |-> own.rates[u]]
      OBVIOUS
    <3>3. own = [rates |-> [u \in Uris |-> own.rates[u]], expire |-> own.expire]
      BY <1>t DEF Types, Config
    <3>4. seen'[h] = [rates |-> [u \in Uris |-> own.rates[u]], expire |-> own.expire]
      BY <1>t, <2>1, <3>1, <3>2 DEF Types
    <3>5. QED
      BY <3>3, <3>4
  <2>3. \A g \in Handlers : (Dumps(g)' <=> Dumps(g)) /\ (Pending(g)' <=> Pending(g))
    BY <1>p, <1>h DEF MarshalEnds, Dumps, Pending
  <2>4. /\ pc'[h] = "encoded" /\ Dumps(h)
        /\ \A g \in Handlers : g # h => pc'[g] = pc[g] /\ seen'[g] = seen[g]
    BY <1>t, <1>p, <1>h, <2>1 DEF MarshalEnds, Dumps, Types
  <2>5. UNCHANGED <<config, file, state, alone, overlap>>
    BY <1>h DEF MarshalEnds
  <2>6. QED
    BY <1>t, <1>h, <2>2, <2>3, <2>4, <2>5
       DEF FileInv, AloneDumps, AllAlone, Stored, Types
<1>i. ASSUME NEW h \in Handlers, Truncate(h) PROVE FileInv'
  <2>1. UNCHANGED <<seen, config, state, alone, overlap>>
    BY <1>i DEF Truncate
  <2>2. \A g \in Handlers : (Dumps(g)' <=> Dumps(g)) /\ (Pending(g)' <=> Pending(g))
    BY <1>p, <1>i DEF Truncate, Dumps, Pending
  <2>3. Dumps(h) /\ file'.is = "empty"
    BY <1>t, <1>i DEF Truncate, Dumps, Types
  <2>4. QED
    BY <1>t, <1>i, <2>1, <2>2, <2>3
       DEF FileInv, AloneDumps, AllAlone, Stored, Types
<1>j. ASSUME NEW h \in Handlers, WriteFile(h) PROVE FileInv'
  <2>1. /\ Dumps(h) /\ ~Dumps(h)' /\ ~Pending(h) /\ ~Pending(h)'
        /\ \A g \in Handlers : g # h => pc'[g] = pc[g]
    BY <1>p, <1>j DEF WriteFile, Dumps, Pending
  <2>2. UNCHANGED <<seen, config, state, alone>>
    BY <1>j DEF WriteFile
  <2>3. CASE h \in alone
    <3>1. file.is = "empty" /\ \A g \in Handlers : Dumps(g) => g = h
      BY <1>j, <2>1, <2>3 DEF FileInv, AloneDumps, WriteFile
    <3>2. Saved' = seen[h]
      BY <1>j, <3>1 DEF WriteFile
    <3>5. ~overlap' => \A q \in Processes : Up(q) => q = Process[h] \/ config[q] = seen[h]
      BY <1>j DEF WriteFile, LeavesOthers
    <3>3. \A g \in Handlers : ~Dumps(g)' /\ (Pending(g)' <=> Pending(g))
      BY <2>1, <3>1 DEF Dumps, Pending
    <3>4. QED
      BY <1>t, <1>j, <2>1, <2>2, <2>3, <3>2, <3>3, <3>5
         DEF FileInv, AloneDumps, AllAlone, Stored, Types
  <2>4. CASE h \notin alone
    <3>1. overlap /\ overlap'
      BY <1>j, <2>1, <2>4 DEF FileInv, AllAlone, WriteFile
    <3>2. \A g \in alone : ~Dumps(g)'
      BY <1>t, <2>1, <2>4 DEF FileInv, AloneDumps, Types, Dumps
    <3>3. QED
      BY <1>t, <1>j, <2>2, <3>1, <3>2
         DEF FileInv, AloneDumps, AllAlone, Stored
  <2>5. QED
    BY <2>3, <2>4
<1>k. ASSUME NEW h \in Handlers, WriteFails(h) PROVE FileInv'
  <2>1. overlap' /\ UNCHANGED <<seen, config, file, state, alone>>
    BY <1>k DEF WriteFails
  <2>2. /\ ~Dumps(h)' /\ ~Pending(h) /\ ~Pending(h)'
        /\ \A g \in Handlers : g # h => pc'[g] = pc[g]
    BY <1>p, <1>k DEF WriteFails, Dumps, Pending
  <2>3. QED
    BY <1>t, <1>k, <2>1, <2>2
       DEF FileInv, AloneDumps, AllAlone, Stored, Dumps, Pending, Types
<1>l. ASSUME NEW p \in Processes, Dies(p) PROVE FileInv'
  <2>1. /\ UNCHANGED <<seen, config, file, alone>> /\ state' = [state EXCEPT ![p] = "down"]
        /\ \A g \in Handlers : IF Process[g] = p
             THEN pc'[g] = "idle" /\ ~Dumps(g)' /\ ~Pending(g)'
             ELSE pc'[g] = pc[g] /\ (Dumps(g)' <=> Dumps(g)) /\ (Pending(g)' <=> Pending(g))
    BY <1>l DEF Dies, Dumps, Pending
  <2>2. Stored'
    <3>1. ~overlap' => ~overlap /\ \A g \in Handlers :
                                     Process[g] = p => ~Dumps(g) /\ ~Pending(g)
      BY <1>l DEF Dies, In, Of, Changing, Dumps, Pending
    <3>2. QED
      BY <1>t, <2>1, <3>1 DEF FileInv, Stored, Types
  <2>3. AloneDumps'
    BY <1>t, <2>1 DEF FileInv, AloneDumps, Types
  <2>4. AllAlone'
    BY <1>t, <1>l, <2>1 DEF Dies, FileInv, AllAlone, Types
  <2>5. QED
    BY <1>t, <2>2, <2>3, <2>4 DEF FileInv
<1>m. ASSUME NEW p \in Processes, Start(p) \/ Fork(p) PROVE FileInv'
  <2>1. PICK q \in Processes : /\ ~Up(q) /\ config' = [config EXCEPT ![q] = Loaded]
                                /\ \A x \in Processes : x # q => (Up(x)' <=> Up(x))
    BY <1>t, <1>m DEF Start, Fork, init, Types
  <2>2. UNCHANGED <<pc, seen, file, alone, overlap>> /\ \A x \in Processes : Up(x) => Up(x)'
    BY <1>t, <1>m DEF Start, Fork, init, Types
  <2>3. \A g \in Handlers : /\ (Dumps(g)' <=> Dumps(g)) /\ (Pending(g)' <=> Pending(g))
                            /\ Dumps(g) => Own(g)' = Own(g)
    BY <1>t, <2>1, <2>2 DEF Dumps, Pending, Types
  <2>4. AloneDumps' /\ AllAlone'
    BY <1>t, <2>2, <2>3 DEF FileInv, AloneDumps, AllAlone, Types
  <2>5. Stored'
    BY <1>t, <2>1, <2>2, <2>3 DEF FileInv, Stored, Loaded, Types
  <2>6. QED
    BY <1>t, <2>4, <2>5 DEF FileInv
<1>r. ASSUME NEW p \in Processes, Serve(p) \/ Shutdown(p) PROVE FileInv'
  <2>1. /\ UNCHANGED <<pc, seen, config, file, alone, overlap>>
        /\ \A x \in Processes : Up(x)' <=> Up(x)
    BY <1>t, <1>r DEF Serve, Shutdown, Types
  <2>2. \A g \in Handlers : (Dumps(g)' <=> Dumps(g)) /\ (Pending(g)' <=> Pending(g))
    BY <2>1 DEF Dumps, Pending
  <2>3. QED
    BY <1>t, <2>1, <2>2 DEF FileInv, AloneDumps, AllAlone, Stored, Types
<1>n. CASE UNCHANGED vars
  BY <1>t, <1>n DEF vars, FileInv, AloneDumps, AllAlone, Stored, DiesWithProcess,
                    Dumps, Pending
<1>q. QED
  BY <1>a, <1>b, <1>d, <1>e, <1>g, <1>h, <1>i, <1>j, <1>k, <1>l, <1>m, <1>n, <1>r
     DEF Next, Handle, Change, Pull, Dump, Live, Exit, MapRace, Killed

LEMMA ReportFile == FileInv /\ ReportStep => FileInv'
<1> SUFFICES ASSUME FileInv, ReportStep PROVE FileInv'
  OBVIOUS
<1>1. Types /\ Types'
  BY ReportTypes DEF FileInv
<1>2. \A h \in Handlers : /\ ~Up(Process[h]) => pc'[h] = "idle"
                          /\ Pending(h)' <=> Pending(h)
                          /\ pc'[h] = pc[h] \/ (~Dumps(h) /\ ~Dumps(h)')
  BY <1>1 DEF ReportStep, Goto, Apart, Types, Pending, Dumps, FileInv, DiesWithProcess
<1>3. UNCHANGED <<seen, config, file, state, alone, overlap>>
  BY DEF ReportStep, rates, history
<1>4. QED
  BY <1>1, <1>2, <1>3, Untouched

\* Unless dumps overlapped or one failed or left another process with other rates, and no
\* later dump ran alone, the file holds the rates of every process, parent and child in a
\* hot restart, whenever no handler is at work.
THEOREM FileKept == ReportsSpec => []FileCurrent
<1>1. ReportsInit => FileInv
  BY InitTypes DEF ReportsInit, Init, FileInv, DiesWithProcess, AloneDumps, AllAlone,
                   Stored, Up, Dumps
<1>2. FileInv /\ [ReportsNext]_allVars => FileInv'
  <2> SUFFICES ASSUME FileInv, [ReportsNext]_allVars PROVE FileInv'
    OBVIOUS
  <2>1. CASE \E h \in Handlers : Report(h)
    BY <2>1, Reporting, ReportFile
  <2>2. CASE [Next]_vars
    BY <2>2, NextFile
  <2>3. QED
    BY <2>1, <2>2 DEF ReportsNext, Tick, allVars
<1>3. FileInv => FileCurrent
  <2> SUFFICES ASSUME FileInv, DefaultConf, ~overlap, In(Changing) = {},
                      NEW p \in Processes, Up(p)
               PROVE  config[p] = Saved
    BY DEF FileCurrent
  <2>1. \A h \in Handlers : pc[h] \notin Changing
    BY DEF In
  <2>2. \A h \in Handlers : ~Pending(h) /\ ~Dumps(h)
    BY <2>1 DEF Changing, Pending, Dumps
  <2>3. QED
    BY <2>2 DEF FileInv, Stored
<1>4. QED
  BY <1>1, <1>2, <1>3, PTL DEF ReportsSpec
-----------------------------------------------------------------------------
(* The reports.  What a store has of a sample, and how far each report is. *)
OnRecord(s) == s \in rows \/ <<"db", s>> \in failed
Pointed(s) == <<"influx", s>> \in failed \/ \E t \in Seconds : <<s, t>> \in wrote

StoreTypes == /\ requests \in 0..MaxRequests
              /\ body \in [Handlers -> Seq(Sample)]
              /\ at \in [Handlers -> Nat]
              /\ \A h \in Handlers : at[h] \in 1..Len(body[h]) + 1
              /\ second \in Seconds
              /\ points \in [Uris \X Seconds -> Sample \union {NoSample}]
              /\ wrote \subseteq Sample \X Seconds

\* Before the place where a report is, each sample has been through the store it is
\* at, and through the database before the first goes to InfluxDB.
Handled ==
  \A h \in Handlers :
    /\ pc[h] = "rows" => \A k \in 1..at[h] - 1 : OnRecord(body[h][k])
    /\ pc[h] = "points" => /\ \A k \in DOMAIN body[h] : OnRecord(body[h][k])
                           /\ \A k \in 1..at[h] - 1 : Pointed(body[h][k])

Answered == \A s \in answered : OnRecord(s) /\ Pointed(s)

LastWritten == \A p \in wrote : \E q \in wrote : /\ q[1].uri = p[1].uri
                                                 /\ q[2] = p[2]
                                                 /\ points[<<p[1].uri, p[2]>>] = q[1]

StoreInv == Types /\ StoreTypes /\ Handled /\ Answered /\ LastWritten

\* The stores only grow, so what was saved stays saved.
LEMMA StaysSaved ==
  ASSUME rows \subseteq rows', failed \subseteq failed', wrote \subseteq wrote'
  PROVE  \A s : (OnRecord(s) => OnRecord(s)') /\ (Pointed(s) => Pointed(s)')
BY DEF OnRecord, Pointed

\* A step of SampleRates starts no report and moves none.
LEMMA RatesMove ==
  ASSUME Types, requests \in 0..MaxRequests, [Next]_vars
  PROVE  /\ requests' \in 0..MaxRequests
         /\ \A h \in Handlers : pc'[h] \in {"rows", "points"} => pc'[h] = pc[h]
<1> USE DEF Types, Goto, bounds, history
<1>1. ASSUME NEW g \in Handlers, Request(g)
      PROVE  /\ requests' \in 0..MaxRequests
             /\ \A h \in Handlers : pc'[h] \in {"rows", "points"} => pc'[h] = pc[h]
  <2>1. PICK r \in Requests : Goto(g, FirstStep(r))
    BY <1>1 DEF Request
  <2>2. QED
    BY <1>1, <2>1, StepType DEF Request
<1>2. ASSUME NEW g \in Handlers, Handle(g) \/ WriteFails(g)
      PROVE  /\ requests' = requests
             /\ \E s \in HandlerStates \ {"rows", "points"} : pc' = [pc EXCEPT ![g] = s]
  BY <1>2 DEF Handle, Change, Lock, Write, Dumped, Check, Pull, ReadLock, ReadUnlock,
              NotSampled, Dump, MarshalBegins, MarshalEnds, Truncate, WriteFile,
              WriteFails, HandlerStates, Changing
<1>3. ASSUME NEW p \in Processes, Live(p) \/ MapRace(p) \/ Killed(p)
      PROVE  /\ requests' \in 0..MaxRequests
             /\ \A h \in Handlers : pc'[h] \in {"rows", "points"} => pc'[h] = pc[h]
  BY <1>3 DEF Live, Start, Fork, init, Serve, Shutdown, Exit, MapRace, Killed, Dies
<1>4. CASE UNCHANGED vars
  BY <1>4 DEF vars
<1>5. QED
  BY <1>1, <1>2, <1>3, <1>4 DEF Next

LEMMA RatesStores ==
  ASSUME StoreInv, [Next]_vars, UNCHANGED stores
  PROVE  StoreInv'
<1>1. Types'
  BY NextTypes DEF StoreInv
<1>2. /\ requests' \in 0..MaxRequests
      /\ \A h \in Handlers : pc'[h] \in {"rows", "points"} => pc'[h] = pc[h]
  BY RatesMove DEF StoreInv, StoreTypes
<1>3. StoreTypes' /\ LastWritten'
  BY <1>2 DEF StoreInv, StoreTypes, LastWritten, stores
<1>4. \A s : (OnRecord(s) => OnRecord(s)') /\ (Pointed(s) => Pointed(s)')
  BY StaysSaved DEF stores
<1>5. Handled' /\ Answered'
  BY <1>2, <1>4 DEF StoreInv, Handled, Answered, stores
<1>6. QED
  BY <1>1, <1>3, <1>5 DEF StoreInv

LEMMA TickStores == StoreInv /\ Tick => StoreInv'
<1> SUFFICES ASSUME StoreInv, Tick PROVE StoreInv'
  OBVIOUS
<1>1. Types'
  BY DEF StoreInv, Types, Tick, vars, history
<1>2. StoreTypes' /\ LastWritten'
  BY ReportsAssumption
     DEF StoreInv, StoreTypes, LastWritten, Tick, Seconds, vars, bounds
<1>3. \A s : (OnRecord(s) => OnRecord(s)') /\ (Pointed(s) => Pointed(s)')
  BY StaysSaved DEF Tick
<1>4. Handled' /\ Answered'
  BY <1>3 DEF StoreInv, Handled, Answered, Tick, vars
<1>5. QED
  BY <1>1, <1>2, <1>4 DEF StoreInv

LEMMA BeginStores ==
  ASSUME StoreInv, NEW h \in Handlers, report_uri_stat(h)
  PROVE  StoreInv'
<1> USE DEF StoreInv, StoreTypes
<1>1. Types'
  BY Reporting, ReportTypes DEF Report
<1>2. PICK r \in Reports :
        body' = [body EXCEPT ![h] = [i \in 1..Len(r) |-> [report |-> requests', uri |-> r[i]]]]
  BY DEF report_uri_stat
<1>3. r \in Seq(Uris) /\ requests' \in 1..MaxRequests
  BY ReportsAssumption DEF report_uri_stat
<1>4. body'[h] \in Seq(Sample)
  <2>1. \A i \in 1..Len(r) : [report |-> requests', uri |-> r[i]] \in Sample
    BY <1>3 DEF Sample
  <2>2. QED
    BY <1>2, <1>3, <2>1
<1>5. StoreTypes' /\ LastWritten'
  BY <1>2, <1>3, <1>4 DEF report_uri_stat, LastWritten
<1>6. \A s : (OnRecord(s) => OnRecord(s)') /\ (Pointed(s) => Pointed(s)')
  BY StaysSaved DEF report_uri_stat
<1>7. Handled'
  <2>1. pc'[h] = "rows" /\ at'[h] = 1
    BY DEF report_uri_stat, Goto, Types
  <2>2. \A g \in Handlers : g # h => /\ pc'[g] = pc[g] /\ at'[g] = at[g]
                                     /\ body'[g] = body[g]
    BY <1>2 DEF report_uri_stat, Goto, Types
  <2>3. 1..at'[h] - 1 = {}
    BY <2>1
  <2>4. QED
    BY <1>6, <2>1, <2>2, <2>3 DEF Handled, OnRecord, Pointed
<1>8. Answered'
  BY <1>6 DEF Answered, report_uri_stat
<1>9. QED
  BY <1>1, <1>5, <1>7, <1>8

\* Either store takes the sample or refuses it, and the report goes on to the next.
LEMMA NextSample ==
  ASSUME StoreInv, NEW h \in Handlers, pc[h] \in {"rows", "points"}, Left(h),
         at' = [at EXCEPT ![h] = @ + 1],
         UNCHANGED <<pc, requests, body, second, answered>>,
         rows \subseteq rows', failed \subseteq failed', wrote \subseteq wrote',
         NEW s, s = Current(h), IF pc[h] = "rows" THEN OnRecord(s)' ELSE Pointed(s)',
         Types', points' \in [Uris \X Seconds -> Sample \union {NoSample}],
         wrote' \subseteq Sample \X Seconds, LastWritten'
  PROVE  StoreInv'
<1> USE DEF StoreInv, StoreTypes
<1>1. /\ at[h] \in 1..Len(body[h]) /\ Len(body[h]) \in Nat
      /\ DOMAIN body[h] = 1..Len(body[h])
  BY DEF Left
<1>2. at'[h] = at[h] + 1 /\ \A g \in Handlers : g # h => at'[g] = at[g]
  OBVIOUS
<1>3. StoreTypes'
  <2>1. \A g \in Handlers : at'[g] \in Nat /\ at'[g] \in 1..Len(body[g]) + 1
    BY <1>1, <1>2
  <2>2. QED
    BY <2>1
<1>4. \A x : (OnRecord(x) => OnRecord(x)') /\ (Pointed(x) => Pointed(x)')
  BY StaysSaved
<1>5. Handled'
  <2> SUFFICES ASSUME NEW g \in Handlers
               PROVE  /\ pc[g] = "rows" => \A k \in 1..at'[g] - 1 : OnRecord(body[g][k])'
                      /\ pc[g] = "points" =>
                           /\ \A k \in DOMAIN body[g] : OnRecord(body[g][k])'
                           /\ \A k \in 1..at'[g] - 1 : Pointed(body[g][k])'
    BY DEF Handled
  <2>1. CASE g # h
    BY <1>2, <1>4, <2>1 DEF Handled
  <2>2. CASE g = h
    <3>1. \A k \in 1..at'[h] - 1 : k \in 1..at[h] - 1 \/ k = at[h]
      BY <1>1, <1>2
    <3>2. s = body[h][at[h]] /\ UNCHANGED body
      BY DEF Current
    <3>3. pc[h] = "rows" => \A k \in 1..at'[h] - 1 : OnRecord(body[h][k])'
      BY <1>4, <3>1, <3>2 DEF Handled, OnRecord
    <3>4. pc[h] = "points" => /\ \A k \in DOMAIN body[h] : OnRecord(body[h][k])'
                              /\ \A k \in 1..at'[h] - 1 : Pointed(body[h][k])'
      BY <1>4, <3>1, <3>2 DEF Handled, OnRecord, Pointed
    <3>5. QED
      BY <2>2, <3>3, <3>4
  <2>3. QED
    BY <2>1, <2>2
<1>6. Answered'
  BY <1>4 DEF Answered
<1>7. QED
  BY <1>3, <1>5, <1>6

LEMMA CurrentType ==
  ASSUME StoreTypes, NEW h \in Handlers, Left(h)
  PROVE  Current(h) \in Sample /\ Current(h).uri \in Uris
<1>1. at[h] \in 1..Len(body[h]) /\ body[h] \in Seq(Sample)
  BY DEF StoreTypes, Left
<1>2. body[h][at[h]] \in Sample
  BY <1>1
<1>3. QED
  BY <1>2 DEF Current, Sample

LEMMA RowStores ==
  ASSUME StoreInv, NEW h \in Handlers, save_db(h)
  PROVE  StoreInv'
<1>1. Types'
  BY Reporting, ReportTypes DEF Report, save_sample_rtt_stat, StoreInv
<1>2. /\ pc[h] = "rows" /\ Left(h) /\ at' = [at EXCEPT ![h] = @ + 1]
      /\ UNCHANGED <<pc, requests, body, second, answered, points, wrote>>
      /\ rows \subseteq rows' /\ failed \subseteq failed'
  BY DEF save_db, Fails, Continue
<1>3. \A s : s = Current(h) => OnRecord(s)'
  BY DEF save_db, Fails, OnRecord
<1>4. LastWritten'
  BY <1>2 DEF StoreInv, LastWritten
<1>5. QED
  BY <1>1, <1>2, <1>3, <1>4, NextSample DEF StoreInv, StoreTypes

\* The last to write a point of a uri and a second is the one whose point is kept.
LEMMA PointStores ==
  ASSUME StoreInv, NEW h \in Handlers, WritesPoints(h)
  PROVE  StoreInv'
<1> DEFINE s == Current(h)
<1>1. Types'
  BY Reporting, ReportTypes DEF Report, save_sample_rtt_stat, StoreInv
<1>2. /\ pc[h] = "points" /\ Left(h) /\ at' = [at EXCEPT ![h] = @ + 1]
      /\ UNCHANGED <<pc, requests, body, second, answered, rows>>
  BY DEF WritesPoints, Fails, Continue
<1>3. s \in Sample /\ s.uri \in Uris
  BY <1>2, CurrentType DEF StoreInv
<1>4. CASE UNCHANGED <<points, wrote>> /\ failed' = failed \union {<<"influx", s>>}
  <2>1. LastWritten'
    BY <1>4 DEF StoreInv, LastWritten
  <2>2. <<"influx", s>> \in failed'
    BY <1>4
  <2>3. \A x : x = Current(h) => Pointed(x)'
    BY <2>2 DEF Pointed
  <2>4. QED
    BY <1>1, <1>2, <1>4, <2>1, <2>3, NextSample DEF StoreInv, StoreTypes
<1>5. CASE /\ points' = [points EXCEPT ![Key(s)] = s]
           /\ wrote' = wrote \union {<<s, second>>}
           /\ UNCHANGED failed
  <2>1. /\ points \in [Uris \X Seconds -> Sample \union {NoSample}]
        /\ second \in Seconds /\ wrote \subseteq Sample \X Seconds
    BY DEF StoreInv, StoreTypes
  <2>2. /\ points' \in [Uris \X Seconds -> Sample \union {NoSample}]
        /\ wrote' \subseteq Sample \X Seconds
        /\ points'[<<s.uri, second>>] = s
    BY <1>3, <1>5, <2>1 DEF Key
  <2>3. LastWritten'
    <3> SUFFICES ASSUME NEW p \in wrote'
                 PROVE  \E q \in wrote' : /\ q[1].uri = p[1].uri /\ q[2] = p[2]
                                          /\ points'[<<p[1].uri, p[2]>>] = q[1]
      BY DEF LastWritten
    <3>1. p \in Sample \X Seconds /\ p[1].uri \in Uris /\ p[2] \in Seconds
      BY <2>2 DEF Sample
    <3>2. CASE p[1].uri = s.uri /\ p[2] = second
      <4>1. <<s, second>> \in wrote'
        BY <1>5
      <4>2. QED
        BY <2>2, <3>2, <4>1
    <3>3. CASE ~(p[1].uri = s.uri /\ p[2] = second)
      <4>1. p \in wrote
        BY <1>5, <3>3
      <4>2. <<p[1].uri, p[2]>> # <<s.uri, second>>
        BY <3>3
      <4>3. points'[<<p[1].uri, p[2]>>] = points[<<p[1].uri, p[2]>>]
        BY <1>5, <2>1, <3>1, <4>2 DEF Key
      <4>4. PICK q \in wrote : /\ q[1].uri = p[1].uri /\ q[2] = p[2]
                               /\ points[<<p[1].uri, p[2]>>] = q[1]
        BY <4>1 DEF StoreInv, LastWritten
      <4>5. QED
        BY <1>5, <4>3, <4>4
    <3>4. QED
      BY <3>2, <3>3
  <2>4. \E t \in Seconds : <<s, t>> \in wrote'
    BY <1>5, <2>1
  <2>5. \A x : x = Current(h) => Pointed(x)'
    BY <2>4 DEF Pointed
  <2>6. QED
    BY <1>1, <1>2, <1>5, <2>2, <2>3, <2>5, NextSample DEF StoreInv
<1>6. QED
  BY <1>4, <1>5 DEF WritesPoints, Fails

LEMMA EndStores ==
  ASSUME StoreInv, NEW h \in Handlers, RowsSaved(h) \/ Answer(h)
  PROVE  StoreInv'
<1> USE DEF StoreInv, StoreTypes
<1>1. Types'
  BY Reporting, ReportTypes DEF Report, save_sample_rtt_stat
<1>2. UNCHANGED <<requests, body, rows, points, second, failed, wrote>>
  BY DEF RowsSaved, Answer, bounds
<1>3. \A s : (OnRecord(s) => OnRecord(s)') /\ (Pointed(s) => Pointed(s)')
  BY <1>2, StaysSaved
<1>4. LastWritten'
  BY <1>2 DEF LastWritten
<1>5. 1..at[h] - 1 = DOMAIN body[h] /\ Len(body[h]) \in Nat
  <2>1. at[h] = Len(body[h]) + 1
    BY DEF RowsSaved, Answer, Left
  <2>2. QED
    BY <2>1
<1>6. CASE RowsSaved(h)
  <2>1. /\ pc[h] = "rows" /\ pc' = [pc EXCEPT ![h] = "points"]
        /\ at' = [at EXCEPT ![h] = 1] /\ UNCHANGED answered
    BY <1>6 DEF RowsSaved, Goto
  <2>2. StoreTypes'
    BY <1>2, <1>5, <2>1
  <2>3. Handled'
    <3>1. \A k \in DOMAIN body[h] : OnRecord(body[h][k])
      BY <1>5, <2>1 DEF Handled
    <3>2. QED
      BY <1>2, <1>3, <2>1, <3>1 DEF Handled, Types
  <2>4. Answered'
    BY <1>3, <2>1 DEF Answered
  <2>5. QED
    BY <1>1, <1>4, <2>2, <2>3, <2>4
<1>7. CASE Answer(h)
  <2>1. /\ pc[h] = "points" /\ pc' = [pc EXCEPT ![h] = "idle"]
        /\ answered' = answered \union {body[h][k] : k \in DOMAIN body[h]}
        /\ UNCHANGED at
    BY <1>7 DEF Answer, Goto
  <2>2. StoreTypes'
    BY <1>2, <2>1
  <2>3. Handled'
    BY <1>2, <1>3, <2>1 DEF Handled, Types
  <2>4. \A k \in DOMAIN body[h] : OnRecord(body[h][k]) /\ Pointed(body[h][k])
    BY <1>5, <2>1 DEF Handled
  <2>5. Answered'
    BY <1>3, <2>1, <2>4 DEF Answered
  <2>6. QED
    BY <1>1, <1>4, <2>2, <2>3, <2>5
<1>8. QED
  BY <1>6, <1>7

LEMMA NextStores == StoreInv /\ [ReportsNext]_allVars => StoreInv'
<1> SUFFICES ASSUME StoreInv, [ReportsNext]_allVars PROVE StoreInv'
  OBVIOUS
<1>1. CASE Next /\ UNCHANGED stores
  BY <1>1, RatesStores
<1>2. ASSUME NEW h \in Handlers, Report(h) PROVE StoreInv'
  BY <1>2, BeginStores, RowStores, PointStores, EndStores
     DEF Report, save_sample_rtt_stat
<1>3. CASE Tick
  BY <1>3, TickStores
<1>4. CASE UNCHANGED allVars
  BY <1>4, RatesStores DEF allVars
<1>5. QED
  BY <1>1, <1>2, <1>3, <1>4 DEF ReportsNext

\* What was answered is in both stores, but for what a store itself refused, and a
\* point gives way only to one of the same tags and second: for any reports that are
\* handled at the same time as others, and as adds, deletes, dumps and restarts.
THEOREM StoresKeep == ReportsSpec => []ReportsKept
<1>1. ReportsInit => StoreInv
  <2> SUFFICES ASSUME ReportsInit PROVE StoreInv
    OBVIOUS
  <2>1. Types
    BY InitTypes DEF ReportsInit
  <2>2. StoreTypes
    BY ReportsAssumption DEF ReportsInit, Init, StoreTypes, Seconds
  <2>3. Handled /\ Answered /\ LastWritten
    BY DEF ReportsInit, Init, Handled, Answered, LastWritten
  <2>4. QED
    BY <2>1, <2>2, <2>3 DEF StoreInv
<1>2. StoreInv => ReportsKept
  BY DEF StoreInv, Answered, LastWritten, OnRecord, Pointed, ReportsKept
<1>3. QED
  BY <1>1, <1>2, NextStores, PTL DEF ReportsSpec
=============================================================================
