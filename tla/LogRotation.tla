---------------------------- MODULE LogRotation ----------------------------
(***************************************************************************)
(* log/logrus/hook/logs/file.go: goroutines call WriteMsg on one LogWriter *)
(* whose file is rotated when it has enough lines or bytes or when the day *)
(* of the month changes.  WriteMsg first runs docheck under startLock and  *)
(* then prints under the lock of MuxWriter, which a rotation also takes.   *)
(* A file is the set of its lines and the time of its last write; a line   *)
(* counts as one byte.  An archive is named by its date and a number.  Time *)
(* is a day and an hour of it; an hour stands for the seconds that          *)
(* deleteOldLog compares, and there may be any number of them in a day.     *)
(***************************************************************************)
EXTENDS Naturals, FiniteSets

CONSTANTS Writers,    \* goroutines that call WriteMsg
          MaxLines, MaxSize, MaxDays,   \* Maxlines, Maxsize, Maxdays
          MaxNumber,  \* archives of one day: 999 in DoRotate
          Month,      \* days of a month, for time.Now().Day()
          Hours,      \* hours of a day
          MaxMsgs,    \* bound: messages of a writer
          LastDay,    \* bound: days
          MaxFaults,  \* bound: failing renames and opens
          MaxStarts   \* bound: restarts of the process

ASSUME RotationAssumption ==
  /\ IsFiniteSet(Writers) /\ Writers # {}
  /\ MaxLines \in Nat \ {0} /\ MaxSize \in Nat \ {0} /\ MaxDays \in Nat
  /\ MaxNumber \in Nat /\ Month \in Nat \ {0} /\ Hours \in Nat \ {0}
  /\ MaxMsgs \in Nat /\ LastDay \in Nat /\ MaxFaults \in Nat /\ MaxStarts \in Nat

VARIABLES
  writer,    \* where each goroutine is, see WriterStates
  sent,      \* messages whose WriteMsg has returned, for each writer
  exists,    \* Filename is in the directory
  current,   \* the file Filename
  archive,   \* the renamed files, by their names
  fdOpen,    \* w.mw.fd is open, and then it is Filename, if that exists
  curlines, cursize, opendate,   \* maxlinesCurlines, maxsizeCursize, dailyOpendate
  fname,     \* the name that the DoRotate in progress has found free
  cleaning,  \* a goroutine of deleteOldLog has not run yet
  day, hour,
  faults, starts,
  trouble,   \* Destroy or a rotation that failed has closed fd, or deleteOldLog has
             \* removed the file it writes to, and it was not reopened
  refused,   \* history: a rotation found no free number
  written,   \* history: the lines written to a file
  lost       \* history: the messages written to a closed fd or a removed file

memory == <<writer, sent, fdOpen, curlines, cursize, opendate, fname, cleaning>>
disk == <<exists, current, archive>>
clock == <<day, hour>>
history == <<trouble, refused, written, lost>>
vars == <<memory, disk, clock, faults, starts, history>>

(***************************************************************************)
(* check: at startLock; close, rename, reopen: in DoRotate, holding it;    *)
(* print: docheck has returned.                                            *)
(***************************************************************************)
WriterStates == {"idle", "check", "close", "rename", "reopen", "print"}

Empty == [lines |-> {}, day |-> day, hour |-> hour]

Names == (0..LastDay) \X (1..MaxNumber)
NoName == <<0, 0>>

Init == /\ writer = [w \in Writers |-> "idle"]
        /\ sent = [w \in Writers |-> 0]
        /\ day = 0 /\ hour = 0
        /\ exists = TRUE
        /\ current = Empty
        /\ archive = [n \in {} |-> Empty]
        /\ fname = NoName
        /\ fdOpen = TRUE
        /\ curlines = 0
        /\ cursize = 0
        /\ opendate = 0
        /\ cleaning = FALSE
        /\ faults = 0
        /\ starts = 0
        /\ trouble = FALSE
        /\ refused = FALSE
        /\ written = {}
        /\ lost = {}

Goto(w, pc) == writer' = [writer EXCEPT ![w] = pc]

\* Who holds which lock follows from where the goroutines are.
\* Fault: an error return of docheck leaves startLock locked.
StartLockLeaks ==
  ~trouble /\ \A w \in Writers : writer[w] \notin {"close", "rename", "reopen"}
StartLockFree == \A w \in Writers : writer[w] \notin {"close", "rename", "reopen"}

\* Fault: DoRotate does not take the lock of the MuxWriter.
NoMuxLock == TRUE
MuxFree == \A w \in Writers : writer[w] \notin {"rename", "reopen"}
-----------------------------------------------------------------------------
CallWriteMsg(w) == /\ writer[w] = "idle"
                   /\ sent[w] < MaxMsgs
                   /\ Goto(w, "check")
                   /\ UNCHANGED <<sent, fdOpen, curlines, cursize, opendate, fname,
                                  cleaning, disk, clock, faults, starts, history>>

\* time.Now().Day().
DayOfMonth == day % Month

\* Fault: one line too many is let in.
DueLate == curlines > MaxLines \/ cursize > MaxSize \/ DayOfMonth # opendate
Due == curlines >= MaxLines \/ cursize >= MaxSize \/ DayOfMonth # opendate

\* The names of today that no file has, and the first of them.
FreeNames == {n \in Names : n[1] = day} \ DOMAIN archive
NumberFree == FreeNames # {}
NextName == CHOOSE n \in FreeNames : \A m \in FreeNames : n[2] <= m[2]

Count(lines, size) == curlines' = lines + 1 /\ cursize' = size + 1

\* docheck without a rotation: none is due, or Filename does not exist, in which
\* case DoRotate does nothing and reports no error.
CheckCounts(w) == /\ writer[w] = "check"
                  /\ StartLockFree
                  /\ ~Due \/ ~exists
                  /\ Count(curlines, cursize)
                  /\ Goto(w, "print")
                  /\ UNCHANGED <<sent, fdOpen, opendate, fname, cleaning, disk, clock,
                                 faults, starts, history>>

\* docheck starts a rotation, or finds no free number and gives up uncounted.
CheckRotates(w) == /\ writer[w] = "check"
                   /\ StartLockFree
                   /\ Due /\ exists
                   /\ Goto(w, IF NumberFree THEN "close" ELSE "print")
                   /\ refused' = (refused \/ ~NumberFree)
                   /\ fname' = IF NumberFree THEN NextName ELSE NoName
                   /\ UNCHANGED <<sent, fdOpen, curlines, cursize, opendate,
                                  cleaning, disk, clock, faults, starts, trouble,
                                  written, lost>>

CloseFile(w) == /\ writer[w] = "close"
                /\ fdOpen' = FALSE
                /\ Goto(w, "rename")
                /\ UNCHANGED <<sent, curlines, cursize, opendate, fname, cleaning,
                               disk, clock, faults, starts, history>>

Rename(w) == /\ writer[w] = "rename"
             /\ exists
             /\ archive' = [n \in DOMAIN archive \union {fname} |->
                             IF n = fname THEN current ELSE archive[n]]
             /\ fname' = NoName
             /\ exists' = FALSE
             /\ current' = Empty
             /\ Goto(w, "reopen")
             /\ UNCHANGED <<sent, fdOpen, curlines, cursize, opendate, cleaning,
                            clock, faults, starts, history>>

\* startLogger on a new file, after which docheck counts the message.
Reopen(w) == /\ writer[w] = "reopen"
             /\ fdOpen' = TRUE
             /\ exists' = TRUE
             /\ current' = Empty
             /\ Count(0, 0)
             /\ opendate' = DayOfMonth
             /\ cleaning' = TRUE
             /\ trouble' = FALSE
             /\ Goto(w, "print")
             /\ UNCHANGED <<sent, fname, archive, clock, faults, starts, refused, written,
                            lost>>

\* os.Rename or os.OpenFile fails: DoRotate returns with fd closed.
RotateFails(w) == /\ writer[w] \in {"rename", "reopen"}
                  /\ faults < MaxFaults
                  /\ faults' = faults + 1
                  /\ trouble' = TRUE
                  /\ fname' = NoName
                  /\ Goto(w, "print")
                  /\ UNCHANGED <<sent, fdOpen, curlines, cursize, opendate,
                                 cleaning, disk, clock, starts, refused, written,
                                 lost>>

\* deleteOldLog has removed the file since it was closed: there is nothing to rename.
RenameMissing(w) == /\ writer[w] = "rename"
                    /\ ~exists
                    /\ trouble' = TRUE
                    /\ fname' = NoName
                    /\ Goto(w, "print")
                    /\ UNCHANGED <<sent, fdOpen, curlines, cursize, opendate, cleaning,
                                   disk, clock, faults, starts, refused, written, lost>>

\* The call of Logger.Print, whose error nobody sees.
PrintLine(w) ==
  /\ writer[w] = "print"
  /\ MuxFree
  /\ sent' = [sent EXCEPT ![w] = @ + 1]
  /\ Goto(w, "idle")
  /\ LET line == [writer |-> w, msg |-> sent[w], day |-> day, hour |-> hour]
     IN  IF fdOpen /\ exists
           THEN /\ current' = [lines |-> current.lines \union {line},
                               day |-> day, hour |-> hour]
                /\ written' = written \union {line}
                /\ lost' = lost
           ELSE /\ lost' = lost \union {line}
                /\ UNCHANGED <<current, written>>
  /\ UNCHANGED <<fdOpen, curlines, cursize, opendate, fname, cleaning, exists,
                 archive, clock, faults, starts, trouble, refused>>
-----------------------------------------------------------------------------
\* Fault: whole days are compared.
OldByDay(f) == f.day + MaxDays <= day
Old(f) == \/ f.day + MaxDays < day
          \/ f.day + MaxDays = day /\ f.hour < hour

\* Every file whose name begins with Filename, which Filename itself does.  What was
\* removed while it is open takes what is written to it along.
DeleteOldLog ==
  /\ cleaning
  /\ cleaning' = FALSE
  /\ archive' = [n \in {n \in DOMAIN archive : ~Old(archive[n])} |-> archive[n]]
  /\ IF exists /\ Old(current)
       THEN exists' = FALSE /\ current' = Empty /\ trouble' = TRUE
       ELSE UNCHANGED <<exists, current, trouble>>
  /\ UNCHANGED <<writer, sent, fdOpen, curlines, cursize, opendate, fname, clock, faults,
                 starts, refused, written, lost>>

\* Destroy closes fd without a lock; a later rotation opens it again.
Destroy == /\ fdOpen
           /\ faults < MaxFaults
           /\ faults' = faults + 1
           /\ fdOpen' = FALSE
           /\ trouble' = TRUE
           /\ UNCHANGED <<writer, sent, curlines, cursize, opendate, fname, cleaning,
                          disk, clock, starts, refused, written, lost>>

\* An hour passes, and at midnight a day.
Tick == /\ IF hour + 1 < Hours THEN hour' = hour + 1 /\ day' = day
                               ELSE hour' = 0 /\ day < LastDay /\ day' = day + 1
        /\ UNCHANGED <<memory, disk, faults, starts, history>>

\* The process dies anywhere and starts again with Init: the lines of the file
\* are counted with strings.Split, which finds one more than there are.
Restart == /\ starts < MaxStarts
           /\ starts' = starts + 1
           /\ writer' = [w \in Writers |-> "idle"]
           /\ fdOpen' = TRUE
           /\ exists' = TRUE
           /\ current' = IF exists THEN current ELSE Empty
           /\ cursize' = Cardinality(current'.lines)
           /\ curlines' = IF cursize' = 0 THEN 0 ELSE cursize' + 1
           /\ opendate' = DayOfMonth
           /\ fname' = NoName
           /\ cleaning' = FALSE
           /\ trouble' = FALSE
           /\ UNCHANGED <<sent, archive, clock, faults, refused, written, lost>>
-----------------------------------------------------------------------------
Write(w) == \/ CheckCounts(w) \/ CheckRotates(w) \/ CloseFile(w) \/ Rename(w)
            \/ RenameMissing(w) \/ Reopen(w) \/ PrintLine(w)

Next == \/ \E w \in Writers : CallWriteMsg(w) \/ Write(w) \/ RotateFails(w)
        \/ DeleteOldLog \/ Destroy \/ Tick \/ Restart

Spec == Init /\ [][Next]_vars

\* A goroutine that can run is run.
FairSpec == Spec /\ \A w \in Writers : WF_vars(Write(w))
-----------------------------------------------------------------------------
Lines == [writer : Writers, msg : 0..MaxMsgs, day : 0..LastDay, hour : 0..(Hours - 1)]
Files == [lines : SUBSET Lines, day : 0..LastDay, hour : 0..(Hours - 1)]

\* The type invariant; the open day is a day of the month.
TypeOK == /\ writer \in [Writers -> WriterStates]
          /\ sent \in [Writers -> 0..MaxMsgs]
          /\ exists \in BOOLEAN /\ fdOpen \in BOOLEAN
          /\ cleaning \in BOOLEAN /\ trouble \in BOOLEAN /\ refused \in BOOLEAN
          /\ current \in Files /\ \A n \in DOMAIN archive : archive[n] \in Files
          /\ DOMAIN archive \subseteq Names /\ fname \in Names \union {NoName}
          /\ curlines \in Nat /\ cursize \in Nat /\ opendate \in 0..(Month - 1)
          /\ day \in 0..LastDay /\ hour \in 0..(Hours - 1)
          /\ faults \in 0..MaxFaults /\ starts \in 0..MaxStarts
          /\ written \subseteq Lines /\ lost \subseteq Lines

\* The line limit holds up to the writers that docheck let through before a
\* rotation and that print after it: each adds at most one uncounted line.  Only
\* when the numbers of a day are used up does a file grow further.
NearLimit(f) == Cardinality(f.lines) <= MaxLines + Cardinality(Writers) - 1

FilesNearLimit ==
  ~refused => NearLimit(current) /\ \A n \in DOMAIN archive : NearLimit(archive[n])

\* A line that was written stays in exactly one file for Maxdays days, to the hour,
\* through rotations, restarts in the middle of one, and deletions.
Holders(l) == {n \in DOMAIN archive : l \in archive[n].lines}
                \union (IF l \in current.lines THEN {NoName} ELSE {})

\* Not more than Maxdays days have passed since the line was written.
ToKeep(l) == \/ l.day + MaxDays > day
             \/ l.day + MaxDays = day /\ l.hour >= hour

Retention == \A l \in written :
  Cardinality(Holders(l)) <= 1 /\ (ToKeep(l) => Cardinality(Holders(l)) = 1)

\* A message is dropped only when Destroy or a failed rotation closed the file, or
\* deleteOldLog removed it while it was open, which takes a file without a line for
\* Maxdays days: no writer ever meets the closed fd of a rotation in progress.
DroppedOnlyInTrouble == [][lost' # lost => trouble]_vars

\* Every call of WriteMsg returns unless the process restarts: the two locks are
\* released on every path and are never waited for in a circle.
WriteReturns == \A w \in Writers : writer[w] = "check" ~> writer[w] = "idle"
=============================================================================
