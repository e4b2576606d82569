------------------------- MODULE LogRotation_proofs -------------------------
(***************************************************************************)
(* Theorems about LogRotation, for any writers, limits, days and numbers   *)
(* of an archive, and any number of messages, faults and restarts.         *)
(***************************************************************************)
EXTENDS LogRotation, FiniteSetTheorems, WellFoundedInduction, TLAPS

USE RotationAssumption
-----------------------------------------------------------------------------
\* When DoRotate finds a free number, the name it takes is free.
LEMMA NameIsFree == NumberFree => NextName \in FreeNames /\ NextName \in Names
<1> SUFFICES ASSUME FreeNames # {} PROVE NextName \in FreeNames /\ NextName \in Names
  BY DEF NumberFree
<1> DEFINE T == {n[2] : n \in FreeNames}
<1>1. T \subseteq Nat /\ T # {}
  BY DEF FreeNames, Names
<1>2. PICK k \in T : \A j \in T : ~(<<j, k>> \in OpToRel(<, Nat))
  BY <1>1, NatLessThanWellFounded, WFMin
<1>3. ASSUME NEW j \in T PROVE k <= j
  <2> SUFFICES ASSUME j < k PROVE FALSE
    BY <1>1
  <2>1. <<j, k>> \in Nat \X Nat
    BY <1>1
  <2>2. <<j, k>> \in OpToRel(<, Nat)
    BY <2>1 DEF OpToRel
  <2>3. QED
    BY <1>2, <2>2
<1>4. PICK n \in FreeNames : n[2] = k
  OBVIOUS
<1>5. \A m \in FreeNames : n[2] <= m[2]
  BY <1>3, <1>4
<1>6. NextName \in FreeNames
  BY <1>5 DEF NextName
<1>7. QED
  BY <1>6 DEF FreeNames
-----------------------------------------------------------------------------
(***************************************************************************)
(* Who holds the locks.  One writer rotates at a time; it closes the file  *)
(* before it moves it, and outside of trouble fd is closed only while a     *)
(* rotation is at work, and is open only when there is a Filename.         *)
(***************************************************************************)
Types == /\ writer \in [Writers -> WriterStates]
         /\ sent \in [Writers -> Nat]
         /\ day \in 0..LastDay /\ hour \in 0..(Hours - 1)
         /\ exists \in BOOLEAN /\ fdOpen \in BOOLEAN /\ trouble \in BOOLEAN
         /\ DOMAIN archive \subseteq Names

Rotating(w) == writer[w] \in {"close", "rename", "reopen"}
Moving(w) == writer[w] \in {"rename", "reopen"}

OneRotates == \A v, w \in Writers : Rotating(v) /\ Rotating(w) => v = w
MovesClosed == \A w \in Writers : Moving(w) => ~fdOpen
Missing == ~exists => current.lines = {} /\ (fdOpen => trouble)
Reopening == \A w \in Writers : writer[w] = "reopen" => ~exists
NameFree == \A w \in Writers :
  writer[w] \in {"close", "rename"} => fname \in Names \ DOMAIN archive
ClosedBy == ~fdOpen => trouble \/ \E w \in Writers : Moving(w)

LockInv == /\ Types /\ OneRotates /\ MovesClosed /\ Missing /\ Reopening
           /\ NameFree /\ ClosedBy

LEMMA LockInit == Init => LockInv
<1> SUFFICES ASSUME Init PROVE LockInv
  OBVIOUS
<1>1. Types
  <2>1. DOMAIN archive = {} /\ day = 0 /\ hour = 0
    BY DEF Init
  <2>2. day \in 0..LastDay /\ hour \in 0..(Hours - 1)
    BY <2>1, SMT
  <2>3. QED
    BY <2>1, <2>2 DEF Init, Types, WriterStates
<1>2. /\ OneRotates /\ MovesClosed /\ Missing /\ Reopening /\ NameFree /\ ClosedBy
  BY DEF Init, OneRotates, MovesClosed, Missing, Reopening, NameFree, ClosedBy,
         Rotating, Moving
<1>3. QED
  BY <1>1, <1>2 DEF LockInv

\* The steps of a rotation.
LEMMA LockRotates ==
  ASSUME LockInv, NEW w \in Writers,
         \/ CheckRotates(w) \/ CloseFile(w) \/ Rename(w) \/ RenameMissing(w)
         \/ Reopen(w) \/ RotateFails(w)
  PROVE  LockInv'
<1> USE DEF Goto, WriterStates, Rotating, Moving
<1>1. CASE CheckRotates(w)
  <2> USE <1>1 DEF LockInv, CheckRotates, disk, clock
  <2>1. Types'
    BY DEF Types
  <2>2. OneRotates' /\ MovesClosed' /\ Reopening'
    BY DEF Types, OneRotates, MovesClosed, Reopening, StartLockFree
  <2>3. Missing' /\ ClosedBy'
    BY DEF Types, Missing, ClosedBy, StartLockFree
  <2>4. NameFree'
    BY NameIsFree DEF Types, NameFree, StartLockFree, FreeNames
  <2>5. QED
    BY <2>1, <2>2, <2>3, <2>4
<1>2. CASE CloseFile(w)
  <2> USE <1>2 DEF LockInv, CloseFile, disk, history, clock
  <2>1. Types'
    BY DEF Types
  <2>2. OneRotates' /\ MovesClosed' /\ Reopening'
    BY DEF Types, OneRotates, MovesClosed, Reopening
  <2>3. Missing' /\ ClosedBy'
    BY DEF Types, Missing, ClosedBy
  <2>4. NameFree'
    BY DEF Types, NameFree, OneRotates
  <2>5. QED
    BY <2>1, <2>2, <2>3, <2>4
<1>3. CASE Rename(w)
  <2> USE <1>3 DEF LockInv, Rename, history, clock
  <2>1. Types'
    BY DEF Types, NameFree
  <2>2. OneRotates' /\ MovesClosed' /\ Reopening'
    BY DEF Types, OneRotates, MovesClosed, Reopening
  <2>3. Missing' /\ ClosedBy'
    BY DEF Types, Missing, ClosedBy, Empty, MovesClosed
  <2>4. NameFree'
    BY DEF Types, NameFree, OneRotates
  <2>5. QED
    BY <2>1, <2>2, <2>3, <2>4
<1>4. CASE Reopen(w)
  <2> USE <1>4 DEF LockInv, Reopen, clock
  <2>1. Types'
    BY DEF Types
  <2>2. OneRotates' /\ MovesClosed' /\ Reopening'
    BY DEF Types, OneRotates, MovesClosed, Reopening
  <2>3. Missing' /\ ClosedBy'
    BY DEF Types, Missing, ClosedBy
  <2>4. NameFree'
    BY DEF Types, NameFree, OneRotates
  <2>5. QED
    BY <2>1, <2>2, <2>3, <2>4
<1>5. CASE RotateFails(w) \/ RenameMissing(w)
  <2> USE <1>5 DEF LockInv, RotateFails, RenameMissing, disk, clock
  <2>1. Types'
    BY DEF Types
  <2>2. OneRotates' /\ MovesClosed' /\ Reopening'
    BY DEF Types, OneRotates, MovesClosed, Reopening
  <2>3. Missing' /\ ClosedBy'
    BY DEF Types, Missing, ClosedBy
  <2>4. NameFree'
    BY DEF Types, NameFree, OneRotates
  <2>5. QED
    BY <2>1, <2>2, <2>3, <2>4
<1>6. QED
  BY <1>1, <1>2, <1>3, <1>4, <1>5

\* The other steps.
LEMMA LockOther ==
  ASSUME LockInv,
         \/ \E w \in Writers : CallWriteMsg(w) \/ CheckCounts(w) \/ PrintLine(w)
         \/ DeleteOldLog \/ Destroy \/ Tick \/ Restart \/ UNCHANGED vars
  PROVE  LockInv'
<1> USE DEF Goto, WriterStates, Rotating, Moving
<1>1. ASSUME NEW w \in Writers, CallWriteMsg(w) \/ CheckCounts(w)
      PROVE  LockInv'
  <2> USE <1>1 DEF LockInv, CallWriteMsg, CheckCounts, Types, disk, history, clock
  <2>1. Types' /\ OneRotates' /\ MovesClosed' /\ Reopening'
    BY DEF OneRotates, MovesClosed, Reopening
  <2>2. Missing' /\ ClosedBy' /\ NameFree'
    BY DEF Missing, ClosedBy, NameFree
  <2>3. QED
    BY <2>1, <2>2
<1>2. ASSUME NEW w \in Writers, PrintLine(w)
      PROVE  LockInv'
  <2> USE <1>2 DEF LockInv, PrintLine, Types, clock
  <2>1. Types' /\ OneRotates' /\ MovesClosed' /\ Reopening'
    BY DEF OneRotates, MovesClosed, Reopening
  <2>2. Missing' /\ ClosedBy' /\ NameFree'
    BY DEF Missing, ClosedBy, NameFree
  <2>3. QED
    BY <2>1, <2>2
<1>3. CASE DeleteOldLog
  <2> USE <1>3 DEF LockInv, DeleteOldLog
  <2>1. Types'
    BY DEF Types, clock
  <2>2. OneRotates' /\ MovesClosed' /\ Reopening'
    BY DEF Types, OneRotates, MovesClosed, Reopening
  <2>3. Missing' /\ ClosedBy'
    BY DEF Types, Missing, ClosedBy, Empty
  <2>4. NameFree'
    BY DEF Types, NameFree
  <2>5. QED
    BY <2>1, <2>2, <2>3, <2>4
<1>4. CASE Destroy
  BY <1>4 DEF Destroy, LockInv, Types, OneRotates, MovesClosed, Missing, Reopening,
              NameFree, ClosedBy, disk, clock
<1>5. CASE Tick
  BY <1>5 DEF Tick, LockInv, Types, OneRotates, MovesClosed, Missing, Reopening,
              NameFree, ClosedBy, memory, disk, history
<1>6. CASE Restart
  BY <1>6 DEF Restart, LockInv, Types, OneRotates, MovesClosed, Missing, Reopening,
              NameFree, ClosedBy, clock
<1>7. CASE UNCHANGED vars
  BY <1>7 DEF vars, memory, disk, clock, history, LockInv, Types, OneRotates, MovesClosed,
              Missing, Reopening, NameFree, ClosedBy
<1>8. QED
  BY <1>1, <1>2, <1>3, <1>4, <1>5, <1>6, <1>7

LEMMA LockNext == LockInv /\ [Next]_vars => LockInv'
<1> SUFFICES ASSUME LockInv, [Next]_vars PROVE LockInv'
  OBVIOUS
<1>1. CASE \E w \in Writers : \/ CheckRotates(w) \/ CloseFile(w) \/ Rename(w)
                              \/ RenameMissing(w) \/ Reopen(w) \/ RotateFails(w)
  BY <1>1, LockRotates
<1>2. CASE \/ \E w \in Writers : CallWriteMsg(w) \/ CheckCounts(w) \/ PrintLine(w)
           \/ DeleteOldLog \/ Destroy \/ Tick \/ Restart \/ UNCHANGED vars
  BY <1>2, LockOther
<1>3. QED
  BY <1>1, <1>2 DEF Next, Write

LEMMA Locked == Spec => []LockInv
BY LockInit, LockNext, PTL DEF Spec

\* A message is dropped only when Destroy or a failed rotation has closed the
\* file, or deleteOldLog has removed it: WriteMsg prints under the lock that DoRotate holds while fd is closed.
THEOREM NoneDropped == Spec => DroppedOnlyInTrouble
<1>1. LockInv /\ [Next]_vars => [lost' # lost => trouble]_vars
  <2> SUFFICES ASSUME LockInv, Next, lost' # lost PROVE trouble
    BY DEF vars
  <2>1. PICK w \in Writers : PrintLine(w)
    BY DEF Next, Write, CallWriteMsg, CheckCounts, CheckRotates, CloseFile, Rename,
           RenameMissing, Reopen, RotateFails, DeleteOldLog, Destroy, Tick, Restart, history
  <2>2. (~fdOpen \/ ~exists) /\ \A v \in Writers : ~Moving(v)
    BY <2>1 DEF PrintLine, MuxFree, Moving
  <2>3. QED
    BY <2>2 DEF LockInv, ClosedBy, Missing
<1>2. QED
  BY <1>1, Locked, PTL DEF Spec, DroppedOnlyInTrouble
-----------------------------------------------------------------------------
(***************************************************************************)
(* Where the lines are.  A file is at least as young as its lines, which   *)
(* is why a deletion by the time of the file spares the lines that have to *)
(* be kept; a line is in one file, since a printed line is new and a file  *)
(* is moved to a name that is free.                                        *)
(***************************************************************************)
NotAfter(l, f) == l.day < f.day \/ (l.day = f.day /\ l.hour <= f.hour)

Past == \A l \in written : /\ l.writer \in Writers /\ l.msg \in Nat
                           /\ l.day \in Nat /\ l.hour \in Nat
                           /\ l.msg < sent[l.writer]
                           /\ l.day < day \/ (l.day = day /\ l.hour <= hour)

InTime(f) == /\ f.day \in Nat /\ f.hour \in Nat
             /\ \A l \in f.lines : l \in written /\ NotAfter(l, f)

OnDisk == InTime(current) /\ \A n \in DOMAIN archive : InTime(archive[n])

Once == /\ \A n \in DOMAIN archive : archive[n].lines \intersect current.lines = {}
        /\ \A m, n \in DOMAIN archive :
             m # n => archive[m].lines \intersect archive[n].lines = {}

Kept(l) == l \in current.lines \/ \E n \in DOMAIN archive : l \in archive[n].lines
Found == \A l \in written : ToKeep(l) => Kept(l)

LineInv == Past /\ OnDisk /\ Once /\ Found

lineVars == <<sent, current, archive, clock, written>>

LEMMA LineInit == Init => LineInv
BY DEF Init, LineInv, Past, OnDisk, InTime, Once, Found, Empty

LEMMA LineSame == LineInv /\ UNCHANGED lineVars => LineInv'
BY DEF lineVars, clock, LineInv, Past, OnDisk, InTime, NotAfter, Once, Found, ToKeep, Kept

LEMMA LineRename ==
  ASSUME LockInv, LineInv, NEW w \in Writers, Rename(w)
  PROVE  LineInv'
<1> DEFINE f == fname
<1>1. /\ f \notin DOMAIN archive
      /\ DOMAIN archive' = DOMAIN archive \union {f}
      /\ archive'[f] = current
      /\ \A n \in DOMAIN archive : archive'[n] = archive[n]
      /\ current'.lines = {} /\ current'.day = day /\ current'.hour = hour
      /\ UNCHANGED <<sent, day, hour, written>>
  BY DEF Rename, LockInv, NameFree, Empty, history, clock
<1>2. day \in Nat /\ hour \in Nat
  BY DEF LockInv, Types
<1> HIDE DEF f
<1>3. Past'
  BY <1>1 DEF LineInv, Past
<1>4. OnDisk'
  BY <1>1, <1>2 DEF LineInv, OnDisk, InTime, NotAfter
<1>5. Once'
  BY <1>1 DEF LineInv, Once
<1>6. Found'
  BY <1>1 DEF LineInv, Found, ToKeep, Kept
<1>7. QED
  BY <1>3, <1>4, <1>5, <1>6 DEF LineInv

LEMMA LinePrint ==
  ASSUME LockInv, LineInv, NEW w \in Writers, PrintLine(w)
  PROVE  LineInv'
<1> DEFINE line == [writer |-> w, msg |-> sent[w], day |-> day, hour |-> hour]
<1>1. /\ sent' = [sent EXCEPT ![w] = @ + 1] /\ sent \in [Writers -> Nat]
      /\ day \in Nat /\ hour \in Nat /\ UNCHANGED <<day, hour, archive>>
  BY DEF PrintLine, LockInv, Types, clock
<1>2. line \notin written
  BY <1>1 DEF LineInv, Past
<1>3. line.writer = w /\ line.msg = sent[w] /\ line.day = day /\ line.hour = hour
  OBVIOUS
<1>4. CASE fdOpen /\ exists
  <2>1. /\ current'.lines = current.lines \union {line} /\ current'.day = day
        /\ current'.hour = hour
        /\ written' = written \union {line}
    BY <1>4 DEF PrintLine
  <2> HIDE DEF line
  <2>2. Past'
    BY <1>1, <1>3, <2>1 DEF LineInv, Past
  <2>3. OnDisk'
    <3>1. InTime(current)'
      BY <1>1, <1>3, <2>1 DEF LineInv, Past, OnDisk, InTime, NotAfter
    <3>2. \A n \in DOMAIN archive : InTime(archive[n])'
      BY <1>1, <2>1 DEF LineInv, OnDisk, InTime, NotAfter
    <3>3. QED
      BY <1>1, <3>1, <3>2 DEF OnDisk
  <2>4. Once'
    BY <1>1, <1>2, <2>1 DEF LineInv, Once, OnDisk, InTime
  <2>5. Found'
    BY <1>1, <1>3, <2>1 DEF LineInv, Found, ToKeep, Kept
  <2>6. QED
    BY <2>2, <2>3, <2>4, <2>5 DEF LineInv
<1>5. CASE ~(fdOpen /\ exists)
  <2>1. UNCHANGED <<current, written>>
    BY <1>5 DEF PrintLine
  <2>2. Past'
    BY <1>1, <2>1 DEF LineInv, Past
  <2>3. OnDisk' /\ Once' /\ Found'
    BY <1>1, <2>1 DEF LineInv, OnDisk, InTime, NotAfter, Once, Found, ToKeep, Kept
  <2>4. QED
    BY <2>2, <2>3 DEF LineInv
<1>6. QED
  BY <1>4, <1>5

\* A file that is old has no line to keep.
LEMMA OldIsPast ==
  ASSUME LockInv, LineInv, NEW f, InTime(f), Old(f), NEW l \in f.lines
  PROVE  ~ToKeep(l)
<1>1. day \in Nat /\ hour \in Nat /\ MaxDays \in Nat
  BY DEF LockInv, Types
<1>2. l.day \in Nat /\ l.hour \in Nat /\ f.day \in Nat /\ f.hour \in Nat /\ NotAfter(l, f)
  BY DEF LineInv, Past, InTime
<1>3. QED
  BY <1>1, <1>2 DEF Old, ToKeep, NotAfter

LEMMA LineDelete ==
  ASSUME LockInv, LineInv, DeleteOldLog
  PROVE  LineInv'
<1>1. /\ DOMAIN archive' = {n \in DOMAIN archive : ~Old(archive[n])}
      /\ \A n \in DOMAIN archive' : archive'[n] = archive[n]
      /\ UNCHANGED <<sent, day, hour, written>>
  BY DEF DeleteOldLog, clock
<1>2. \/ current' = current
      \/ Old(current) /\ current'.lines = {} /\ current'.day = day /\ current'.hour = hour
  BY DEF DeleteOldLog, Empty
<1>3. day \in Nat /\ hour \in Nat
  BY DEF LockInv, Types
<1>4. Past' /\ OnDisk' /\ Once'
  BY <1>1, <1>2, <1>3 DEF LineInv, Past, OnDisk, InTime, NotAfter, Once
<1>5. Found'
  <2> SUFFICES ASSUME NEW l \in written, ToKeep(l) PROVE Kept(l)'
    BY <1>1 DEF Found, ToKeep
  <2>1. CASE l \in current.lines
    <3>1. ~Old(current)
      BY <2>1, OldIsPast DEF LineInv, OnDisk
    <3>2. QED
      BY <1>2, <2>1, <3>1 DEF Kept
  <2>2. CASE \E n \in DOMAIN archive : l \in archive[n].lines
    <3>1. PICK n \in DOMAIN archive : l \in archive[n].lines
      BY <2>2
    <3>2. ~Old(archive[n])
      BY <3>1, OldIsPast DEF LineInv, OnDisk
    <3>3. QED
      BY <1>1, <3>1, <3>2 DEF Kept
  <2>3. QED
    BY <2>1, <2>2 DEF LineInv, Found, Kept
<1>6. QED
  BY <1>4, <1>5 DEF LineInv

LEMMA LineNext == LockInv /\ LineInv /\ [Next]_vars => LineInv'
<1> SUFFICES ASSUME LockInv, LineInv, [Next]_vars PROVE LineInv'
  OBVIOUS
<1>1. ASSUME NEW w \in Writers,
             \/ CallWriteMsg(w) \/ CheckCounts(w) \/ CheckRotates(w) \/ CloseFile(w)
             \/ RenameMissing(w) \/ RotateFails(w)
      PROVE  LineInv'
  BY <1>1, LineSame DEF CallWriteMsg, CheckCounts, CheckRotates, CloseFile, RenameMissing,
                        RotateFails, lineVars, disk, history
<1>2. ASSUME NEW w \in Writers, Reopen(w)
      PROVE  LineInv'
  <2>1. /\ current.lines = {} /\ current'.lines = {}
        /\ current'.day = day /\ day \in Nat /\ current'.hour = hour /\ hour \in Nat
    BY <1>2 DEF Reopen, Empty, LockInv, Reopening, Missing, Types
  <2>2. UNCHANGED <<sent, archive, day, hour, written>>
    BY <1>2 DEF Reopen, clock
  <2>3. QED
    BY <2>1, <2>2 DEF LineInv, Past, OnDisk, InTime, NotAfter, Once, Found, ToKeep, Kept
<1>3. CASE Restart
  <2>1. /\ day \in Nat /\ hour \in Nat
        /\ \/ current' = current
           \/ /\ current'.day = day /\ current'.hour = hour
              /\ current'.lines = {} /\ current.lines = {}
    BY <1>3 DEF Restart, Empty, LockInv, Missing, Types
  <2>2. UNCHANGED <<sent, archive, day, hour, written>>
    BY <1>3 DEF Restart, clock
  <2>3. QED
    BY <2>1, <2>2 DEF LineInv, Past, OnDisk, InTime, NotAfter, Once, Found, ToKeep, Kept
<1>4. CASE Tick
  <2>1. /\ day \in Nat /\ hour \in Nat /\ day' \in Nat /\ hour' \in Nat
        /\ day < day' \/ (day = day' /\ hour <= hour')
        /\ UNCHANGED <<sent, current, archive, written>>
    BY <1>4 DEF Tick, memory, disk, history, LockInv, Types
  <2>2. Past' /\ OnDisk' /\ Once'
    BY <2>1 DEF LineInv, Past, OnDisk, InTime, NotAfter, Once
  <2>3. Found'
    BY <2>1 DEF LineInv, Past, Found, ToKeep, Kept
  <2>4. QED
    BY <2>2, <2>3 DEF LineInv
<1>5. CASE Destroy \/ UNCHANGED vars
  BY <1>5, LineSame DEF Destroy, vars, memory, disk, history, lineVars, clock
<1>6. QED
  BY <1>1, <1>2, <1>3, <1>4, <1>5, LineRename, LinePrint, LineDelete DEF Next, Write

LEMMA Lined == Spec => []LineInv
BY LineInit, LineNext, Locked, PTL DEF Spec

\* A line that was written is in exactly one file for Maxdays days, to the hour,
\* through rotations, restarts in the middle of one, and deletions.
THEOREM LinesKept == Spec => []Retention
<1>1. LockInv /\ LineInv => Retention
  <2> SUFFICES ASSUME LockInv, LineInv, NEW l \in written
               PROVE  /\ Cardinality(Holders(l)) <= 1
                      /\ ToKeep(l) => Cardinality(Holders(l)) = 1
    BY DEF Retention
  <2>1. NoName \notin DOMAIN archive
    BY DEF LockInv, Types, Names, NoName
  <2>2. \A x, y \in Holders(l) : x = y
    BY <2>1 DEF LineInv, Once, Holders
  <2>3. CASE Holders(l) = {}
    <3>1. ~Kept(l)
      BY <2>3 DEF Holders, Kept
    <3>2. ~ToKeep(l)
      BY <3>1 DEF LineInv, Found
    <3>3. QED
      BY <2>3, <3>2, FS_EmptySet
  <2>4. CASE Holders(l) # {}
    <3>1. PICK x : Holders(l) = {x}
      BY <2>2, <2>4
    <3>2. Cardinality(Holders(l)) = 1
      BY <3>1, FS_Singleton
    <3>3. QED
      BY <3>2
  <2>5. QED
    BY <2>3, <2>4
<1>2. QED
  BY <1>1, Locked, Lined, PTL
-----------------------------------------------------------------------------
(***************************************************************************)
(* How many lines.  While Filename is open, its lines and the writers that *)
(* have yet to print are together no more than docheck has counted and one *)
(* for each other writer, which came from before the rotation; and who has *)
(* yet to print was counted within the limit.                              *)
(***************************************************************************)
Printing == {w \in Writers : writer[w] = "print"}

Counts == curlines \in Nat
Finite == /\ IsFiniteSet(current.lines)
          /\ \A n \in DOMAIN archive : IsFiniteSet(archive[n].lines)
Counted == Cardinality(current.lines) + Cardinality(Printing)
             <= curlines + Cardinality(Writers) - 1
Limited == curlines <= MaxLines \/ Printing = {}

CountInv == /\ Counts /\ Finite
            /\ ~refused /\ fdOpen /\ exists => Counted /\ Limited
            /\ FilesNearLimit

LEMMA Sizes == /\ Cardinality(Writers) \in Nat \ {0}
               /\ IsFiniteSet(Printing) /\ Cardinality(Printing) \in Nat
               /\ Cardinality(Printing) <= Cardinality(Writers)
               /\ IsFiniteSet(Printing') /\ Cardinality(Printing') \in Nat
               /\ Cardinality(Printing') <= Cardinality(Writers)
<1>1. Printing \subseteq Writers /\ Printing' \subseteq Writers
  BY DEF Printing
<1>2. Cardinality(Writers) \in Nat /\ Cardinality(Writers) # 0
  BY FS_CardinalityType, FS_EmptySet
<1>3. QED
  BY <1>1, <1>2, FS_Subset, FS_CardinalityType

\* A step that leaves files and counters alone, and after which nobody more has
\* yet to print, or Filename is not open.
LEMMA CountSame ==
  ASSUME CountInv, UNCHANGED <<current, archive, curlines>>,
         refused => refused',
         fdOpen' /\ exists' => (fdOpen /\ exists /\ Printing' = Printing) \/ refused'
  PROVE  CountInv'
<1>1. Counts' /\ Finite'
  BY DEF CountInv, Counts, Finite
<1>2. FilesNearLimit'
  BY DEF CountInv, FilesNearLimit, NearLimit
<1>3. ~refused' /\ fdOpen' /\ exists' => Counted' /\ Limited'
  BY DEF CountInv, Counted, Limited
<1>4. QED
  BY <1>1, <1>2, <1>3 DEF CountInv

LEMMA CountInit == Init => CountInv
<1> SUFFICES ASSUME Init PROVE CountInv
  OBVIOUS
<1>1. /\ current.lines = {} /\ DOMAIN archive = {} /\ curlines = 0
      /\ Printing = {}
  BY DEF Init, Empty, Printing
<1>2. Cardinality({}) = 0 /\ IsFiniteSet({})
  BY FS_EmptySet
<1>3. Counts /\ Finite
  BY <1>1, <1>2 DEF Counts, Finite
<1>4. Counted /\ Limited /\ FilesNearLimit
  BY <1>1, <1>2, Sizes DEF Counted, Limited, FilesNearLimit, NearLimit
<1>5. QED
  BY <1>3, <1>4 DEF CountInv

LEMMA CountChecks ==
  ASSUME LockInv, CountInv, NEW w \in Writers, CheckCounts(w)
  PROVE  CountInv'
<1>1. /\ Printing' = Printing \union {w}
      /\ curlines' = curlines + 1
      /\ UNCHANGED <<current, archive, fdOpen, exists, refused>>
  BY DEF CheckCounts, Count, Goto, Printing, disk, history, LockInv, Types
<1>2. curlines \in Nat
  BY DEF CountInv, Counts
<1>3. Counts' /\ Finite' /\ FilesNearLimit'
  BY <1>1, <1>2 DEF CountInv, Counts, Finite, FilesNearLimit, NearLimit
<1>4. ASSUME ~refused, fdOpen, exists PROVE Counted' /\ Limited'
  <2>1. curlines < MaxLines
    BY <1>2, <1>4 DEF CheckCounts, Due
  <2>2. Cardinality(Printing') <= Cardinality(Printing) + 1
    BY <1>1, Sizes, FS_AddElement
  <2>3. Counted
    BY <1>4 DEF CountInv
  <2>4. Cardinality(current.lines) \in Nat
    BY FS_CardinalityType DEF CountInv, Finite
  <2>5. Counted'
    BY <1>1, <1>2, <2>2, <2>3, <2>4, Sizes DEF Counted
  <2>6. QED
    BY <1>1, <1>2, <2>1, <2>5 DEF Limited
<1>5. QED
  BY <1>1, <1>3, <1>4 DEF CountInv

LEMMA CountRename ==
  ASSUME LockInv, CountInv, NEW w \in Writers, Rename(w)
  PROVE  CountInv'
<1> DEFINE f == fname
<1>1. /\ f \notin DOMAIN archive
      /\ DOMAIN archive' = DOMAIN archive \union {f}
      /\ archive'[f] = current
      /\ \A n \in DOMAIN archive : archive'[n] = archive[n]
      /\ current'.lines = {}
      /\ UNCHANGED <<curlines, refused>>
      /\ ~fdOpen /\ ~fdOpen'
  BY DEF Rename, LockInv, NameFree, MovesClosed, Moving, Empty, history
<1> HIDE DEF f
<1>2. IsFiniteSet(current'.lines) /\ Cardinality(current'.lines) = 0
  BY <1>1, FS_EmptySet
<1>3. Counts' /\ Finite'
  BY <1>1, <1>2 DEF CountInv, Counts, Finite
<1>4. NearLimit(current')
  BY <1>2, Sizes DEF NearLimit
<1>5. FilesNearLimit'
  BY <1>1, <1>4 DEF CountInv, FilesNearLimit, NearLimit
<1>6. QED
  BY <1>1, <1>3, <1>5 DEF CountInv

LEMMA CountReopen ==
  ASSUME LockInv, CountInv, NEW w \in Writers, Reopen(w)
  PROVE  CountInv'
<1>1. /\ current'.lines = {} /\ curlines' = 1
      /\ UNCHANGED <<archive, refused>>
  BY DEF Reopen, Empty, Count
<1>2. IsFiniteSet(current'.lines) /\ Cardinality(current'.lines) = 0
  BY <1>1, FS_EmptySet
<1>3. Counts' /\ Finite' /\ Counted' /\ Limited'
  BY <1>1, <1>2, Sizes DEF CountInv, Counts, Finite, Counted, Limited
<1>4. NearLimit(current')
  BY <1>2, Sizes DEF NearLimit
<1>5. FilesNearLimit'
  BY <1>1, <1>4 DEF CountInv, FilesNearLimit, NearLimit
<1>6. QED
  BY <1>3, <1>5 DEF CountInv

LEMMA CountPrint ==
  ASSUME LockInv, CountInv, NEW w \in Writers, PrintLine(w)
  PROVE  CountInv'
<1>1. /\ w \in Printing /\ Printing' = Printing \ {w}
      /\ UNCHANGED <<archive, curlines, fdOpen, exists, refused>>
  BY DEF PrintLine, Goto, Printing, LockInv, Types
<1>2. Cardinality(Printing') = Cardinality(Printing) - 1
  BY <1>1, Sizes, FS_RemoveElement
<1>3. IsFiniteSet(current.lines) /\ Cardinality(current.lines) \in Nat /\ curlines \in Nat
  BY FS_CardinalityType DEF CountInv, Finite, Counts
<1>4. CASE fdOpen /\ exists
  <2> DEFINE line == [writer |-> w, msg |-> sent[w], day |-> day, hour |-> hour]
             more == current.lines \union {line}
  <2>1. current'.lines = more
    BY <1>4 DEF PrintLine
  <2> HIDE DEF line
  <2>2. IsFiniteSet(more) /\ Cardinality(more) \in Nat
        /\ Cardinality(more) <= Cardinality(current.lines) + 1
    <3>1. /\ IsFiniteSet(more)
          /\ Cardinality(more) = IF line \in current.lines THEN Cardinality(current.lines)
                                                           ELSE Cardinality(current.lines) + 1
      BY <1>3, FS_AddElement
    <3>2. QED
      BY <1>3, <3>1
  <2> HIDE DEF more
  <2>3. Counts' /\ Finite'
    BY <1>1, <2>1, <2>2 DEF CountInv, Counts, Finite
  <2>4. ASSUME ~refused PROVE Counted' /\ Limited' /\ NearLimit(current')
    <3>1. Counted /\ Limited
      BY <1>4, <2>4 DEF CountInv
    <3>2. curlines <= MaxLines
      BY <1>1, <3>1 DEF Limited
    <3>3. Counted'
      BY <1>1, <1>2, <1>3, <2>1, <2>2, <3>1, Sizes DEF Counted
    <3>4. NearLimit(current')
      BY <1>1, <1>2, <1>3, <2>1, <2>2, <3>2, <3>3, Sizes DEF Counted, NearLimit
    <3>5. QED
      BY <1>1, <3>2, <3>3, <3>4 DEF Limited
  <2>5. FilesNearLimit'
    BY <1>1, <2>4 DEF CountInv, FilesNearLimit, NearLimit
  <2>6. QED
    BY <1>1, <2>3, <2>4, <2>5 DEF CountInv
<1>5. CASE ~(fdOpen /\ exists)
  <2>1. UNCHANGED current
    BY <1>5 DEF PrintLine
  <2>2. QED
    BY <1>1, <1>5, <2>1, CountSame
<1>6. QED
  BY <1>4, <1>5

LEMMA CountDelete == CountInv /\ DeleteOldLog => CountInv'
<1> SUFFICES ASSUME CountInv, DeleteOldLog PROVE CountInv'
  OBVIOUS
<1>1. /\ DOMAIN archive' \subseteq DOMAIN archive
      /\ \A n \in DOMAIN archive' : archive'[n] = archive[n]
      /\ UNCHANGED <<curlines, fdOpen, refused, writer>>
      /\ UNCHANGED <<current, exists>> \/ (current'.lines = {} /\ ~exists')
  BY DEF DeleteOldLog, Empty
<1>2. Printing' = Printing
  BY <1>1 DEF Printing
<1>3. IsFiniteSet({}) /\ Cardinality({}) = 0
  BY FS_EmptySet
<1>4. Counts' /\ Finite' /\ FilesNearLimit'
  <2>1. Counts' /\ Finite'
    BY <1>1, <1>3 DEF CountInv, Counts, Finite
  <2>2. ASSUME ~refused PROVE NearLimit(current')
    <3>1. CASE current'.lines = {}
      <4>1. Cardinality(current'.lines) = 0
        BY <3>1, <1>3
      <4>2. QED
        BY <4>1, Sizes DEF NearLimit
    <3>2. CASE current' = current
      BY <1>1, <2>2, <3>2 DEF CountInv, FilesNearLimit, NearLimit
    <3>3. QED
      BY <1>1, <3>1, <3>2
  <2>3. FilesNearLimit'
    BY <1>1, <2>2 DEF CountInv, FilesNearLimit, NearLimit
  <2>4. QED
    BY <2>1, <2>3
<1>5. ~refused' /\ fdOpen' /\ exists' => Counted' /\ Limited'
  BY <1>1, <1>2 DEF CountInv, Counted, Limited
<1>6. QED
  BY <1>4, <1>5 DEF CountInv

LEMMA CountRestart == LockInv /\ CountInv /\ Restart => CountInv'
<1> SUFFICES ASSUME LockInv, CountInv, Restart PROVE CountInv'
  OBVIOUS
<1>1. /\ current'.lines = current.lines
      /\ cursize' = Cardinality(current'.lines)
      /\ curlines' = IF cursize' = 0 THEN 0 ELSE cursize' + 1
      /\ Printing' = {}
      /\ UNCHANGED <<archive, refused>>
  BY DEF Restart, Empty, LockInv, Missing, Types, Printing
<1>2. Cardinality(current'.lines) \in Nat /\ Cardinality(Printing') = 0
  BY <1>1, FS_CardinalityType, FS_EmptySet DEF CountInv, Finite
<1>3. Counts' /\ Finite' /\ Counted' /\ Limited'
  BY <1>1, <1>2, Sizes DEF CountInv, Counts, Finite, Counted, Limited
<1>4. FilesNearLimit'
  BY <1>1 DEF CountInv, FilesNearLimit, NearLimit
<1>5. QED
  BY <1>3, <1>4 DEF CountInv

LEMMA CountNext == LockInv /\ CountInv /\ [Next]_vars => CountInv'
<1> SUFFICES ASSUME LockInv, CountInv, [Next]_vars PROVE CountInv'
  OBVIOUS
<1>1. ASSUME NEW w \in Writers, CallWriteMsg(w) \/ CloseFile(w)
      PROVE  CountInv'
  <2>1. /\ UNCHANGED <<current, archive, curlines, refused>> /\ (fdOpen' /\ exists' => fdOpen /\ exists)
        /\ Printing' = Printing
    BY <1>1 DEF CallWriteMsg, CloseFile, Goto, Printing, disk, history, LockInv, Types
  <2>2. QED
    BY <2>1, CountSame
<1>2. ASSUME NEW w \in Writers, CheckRotates(w)
      PROVE  CountInv'
  <2>1. /\ UNCHANGED <<current, archive, curlines, fdOpen, exists>> /\ (refused => refused')
        /\ Printing' = Printing \/ refused'
    BY <1>2 DEF CheckRotates, Goto, Printing, disk, LockInv, Types
  <2>2. QED
    BY <2>1, CountSame
<1>3. ASSUME NEW w \in Writers, RotateFails(w) \/ RenameMissing(w)
      PROVE  CountInv'
  <2>1. UNCHANGED <<current, archive, curlines, refused>> /\ ~fdOpen'
    BY <1>3 DEF RotateFails, RenameMissing, disk, LockInv, MovesClosed, Moving
  <2>2. QED
    BY <2>1, CountSame
<1>4. CASE Destroy \/ Tick \/ UNCHANGED vars
  <2>1. /\ UNCHANGED <<current, archive, curlines, refused, writer>>
        /\ (fdOpen' /\ exists' => fdOpen /\ exists)
    BY <1>4 DEF Destroy, Tick, vars, memory, disk, history
  <2>2. Printing' = Printing
    BY <2>1 DEF Printing
  <2>3. QED
    BY <2>1, <2>2, CountSame
<1>5. QED
  BY <1>1, <1>2, <1>3, <1>4, CountChecks, CountRename, CountReopen, CountPrint,
     CountDelete, CountRestart DEF Next, Write

\* Until the numbers of a day are used up, a file exceeds Maxlines by at most one
\* line for every other writer, although docheck counts before WriteMsg prints.
THEOREM LimitHolds == Spec => []FilesNearLimit
<1>1. CountInv => FilesNearLimit
  BY DEF CountInv
<1>2. QED
  BY <1>1, CountInit, CountNext, Locked, PTL DEF Spec
-----------------------------------------------------------------------------
(* Types: what the writers have sent, what is in the files, and the rest.   *)
Progress == /\ sent \in [Writers -> 0..MaxMsgs]
            /\ \A w \in Writers : writer[w] # "idle" => sent[w] < MaxMsgs

FilesTyped == /\ current \in Files /\ \A n \in DOMAIN archive : archive[n] \in Files
              /\ written \subseteq Lines /\ lost \subseteq Lines

Settings == /\ fname \in Names \union {NoName} /\ cursize \in Nat
            /\ opendate \in 0..(Month - 1)
            /\ faults \in 0..MaxFaults /\ starts \in 0..MaxStarts
Flags == cleaning \in BOOLEAN /\ refused \in BOOLEAN

TypeInv == Progress /\ FilesTyped /\ Settings /\ Flags

\* The parts hold at the start.
LEMMA TypeInit == Init => TypeInv
<1> SUFFICES ASSUME Init PROVE TypeInv
  OBVIOUS
<1>1. Progress
  <2>1. 0 \in 0..MaxMsgs
    OBVIOUS
  <2>2. QED
    BY <2>1 DEF Init, Progress
<1>2. FilesTyped
  <2>1. day \in 0..LastDay /\ hour \in 0..(Hours - 1)
    BY DEF Init
  <2>2. current \in Files
    BY <2>1 DEF Init, Files, Empty
  <2>3. DOMAIN archive = {} /\ written = {} /\ lost = {}
    BY DEF Init
  <2>4. QED
    BY <2>2, <2>3 DEF FilesTyped
<1>3. Settings
  BY DEF Init, Settings
<1>4. Flags
  BY DEF Init, Flags
<1>5. QED
  BY <1>1, <1>2, <1>3, <1>4 DEF TypeInv

\* A writer has a message to send until it has printed it.
LEMMA ProgressNext ==
  ASSUME LockInv, Progress, [Next]_vars
  PROVE  Progress'
<1>0. writer \in [Writers -> WriterStates]
  BY DEF LockInv, Types
<1>1. ASSUME NEW w \in Writers, CallWriteMsg(w) PROVE Progress'
  BY <1>0, <1>1 DEF CallWriteMsg, Progress, Goto
<1>2. ASSUME NEW w \in Writers, NEW pc, Goto(w, pc), writer[w] # "idle", UNCHANGED sent
      PROVE  Progress'
  BY <1>0, <1>2 DEF Progress, Goto
<1>3. ASSUME NEW w \in Writers,
             CheckCounts(w) \/ CheckRotates(w) \/ CloseFile(w) \/ Rename(w)
               \/ RenameMissing(w) \/ Reopen(w) \/ RotateFails(w)
      PROVE  Progress'
  <2>1. (\E pc : Goto(w, pc)) /\ writer[w] # "idle" /\ UNCHANGED sent
    BY <1>3 DEF CheckCounts, CheckRotates, CloseFile, Rename, RenameMissing, Reopen,
                RotateFails
  <2>2. QED
    BY <1>2, <2>1
<1>4. ASSUME NEW w \in Writers, PrintLine(w) PROVE Progress'
  <2>1. /\ sent' = [sent EXCEPT ![w] = @ + 1] /\ writer' = [writer EXCEPT ![w] = "idle"]
        /\ sent[w] < MaxMsgs
    BY <1>4 DEF PrintLine, Goto, Progress
  <2>2. sent[w] + 1 \in 0..MaxMsgs
    BY <2>1 DEF Progress
  <2>3. QED
    BY <1>0, <2>1, <2>2 DEF Progress
<1>5. CASE Restart
  BY <1>5 DEF Restart, Progress
<1>6. CASE DeleteOldLog \/ Destroy \/ Tick \/ UNCHANGED vars
  BY <1>6 DEF DeleteOldLog, Destroy, Tick, vars, memory, Progress
<1>7. QED
  BY <1>1, <1>3, <1>4, <1>5, <1>6 DEF Next, Write

\* What is written into a file, and which files are kept.
LEMMA FilesNext ==
  ASSUME LockInv, Progress, FilesTyped, [Next]_vars
  PROVE  FilesTyped'
<1>0. /\ day \in 0..LastDay /\ hour \in 0..(Hours - 1) /\ current \in Files
      /\ \A n \in DOMAIN archive : archive[n] \in Files
      /\ written \subseteq Lines /\ lost \subseteq Lines
  BY DEF LockInv, Types, FilesTyped
<1>f. Empty \in Files
  BY <1>0 DEF Empty, Files
<1>1. ASSUME NEW w \in Writers, Rename(w) PROVE FilesTyped'
  <2>1. /\ archive' = [n \in DOMAIN archive \union {fname} |->
                         IF n = fname THEN current ELSE archive[n]]
        /\ current' = Empty /\ UNCHANGED <<written, lost>>
    BY <1>1 DEF Rename, history
  <2>2. \A n \in DOMAIN archive' : archive'[n] = current \/ (n \in DOMAIN archive /\ archive'[n] = archive[n])
    BY <2>1
  <2>3. QED
    BY <1>0, <1>f, <2>1, <2>2 DEF FilesTyped
<1>2. ASSUME NEW w \in Writers, Reopen(w) PROVE FilesTyped'
  BY <1>0, <1>f, <1>2 DEF Reopen, FilesTyped
<1>3. ASSUME NEW w \in Writers, PrintLine(w) PROVE FilesTyped'
  <2> DEFINE line == [writer |-> w, msg |-> sent[w], day |-> day, hour |-> hour]
  <2>1. line \in Lines
    BY <1>0 DEF Lines, Progress
  <2>2. /\ \/ /\ current' = [lines |-> current.lines \union {line}, day |-> day, hour |-> hour]
              /\ written' = written \union {line} /\ lost' = lost
           \/ lost' = lost \union {line} /\ UNCHANGED <<current, written>>
        /\ archive' = archive
    BY <1>3 DEF PrintLine
  <2> HIDE DEF line
  <2>3. current' \in Files /\ written' \subseteq Lines /\ lost' \subseteq Lines
    <3>1. CASE /\ current' = [lines |-> current.lines \union {line}, day |-> day, hour |-> hour]
               /\ written' = written \union {line} /\ lost' = lost
      BY <1>0, <2>1, <3>1 DEF Files
    <3>2. CASE lost' = lost \union {line} /\ UNCHANGED <<current, written>>
      BY <1>0, <2>1, <3>2
    <3>3. QED
      BY <2>2, <3>1, <3>2
  <2>4. QED
    BY <1>0, <2>2, <2>3 DEF FilesTyped
<1>4. CASE DeleteOldLog
  <2>1. /\ archive' = [n \in {n \in DOMAIN archive : ~Old(archive[n])} |-> archive[n]]
        /\ current' \in {current, Empty} /\ UNCHANGED <<written, lost>>
    BY <1>4 DEF DeleteOldLog
  <2>2. \A n \in DOMAIN archive' : n \in DOMAIN archive /\ archive'[n] = archive[n]
    BY <2>1
  <2>3. QED
    BY <1>0, <1>f, <2>1, <2>2 DEF FilesTyped
<1>5. CASE Restart
  <2>1. /\ current' = IF exists THEN current ELSE Empty
        /\ UNCHANGED <<archive, written, lost>>
    BY <1>5 DEF Restart
  <2>2. QED
    BY <1>0, <1>f, <2>1 DEF FilesTyped
<1>6. CASE \/ \E w \in Writers : CallWriteMsg(w) \/ CheckCounts(w) \/ CheckRotates(w)
                                  \/ CloseFile(w) \/ RenameMissing(w) \/ RotateFails(w)
           \/ Destroy \/ Tick \/ UNCHANGED vars
  <2>1. UNCHANGED <<current, archive, written, lost>>
    BY <1>6 DEF CallWriteMsg, CheckCounts, CheckRotates, CloseFile, RenameMissing,
                RotateFails, Destroy, Tick, vars, disk, history
  <2>2. QED
    BY <1>0, <2>1 DEF FilesTyped
<1>7. QED
  BY <1>1, <1>2, <1>3, <1>4, <1>5, <1>6 DEF Next, Write

\* What the writer of the log remembers.
LEMMA SettingsNext ==
  ASSUME LockInv, Finite, Settings, [Next]_vars
  PROVE  Settings'
<1>0. /\ day \in 0..LastDay /\ cursize \in Nat /\ DayOfMonth \in 0..(Month - 1)
      /\ fname \in Names \union {NoName} /\ opendate \in 0..(Month - 1)
      /\ faults \in 0..MaxFaults /\ starts \in 0..MaxStarts
  BY DEF LockInv, Types, Settings, DayOfMonth
<1>1. ASSUME NEW w \in Writers, CheckCounts(w) PROVE Settings'
  BY <1>0, <1>1 DEF CheckCounts, Count, Settings
<1>2. ASSUME NEW w \in Writers, CheckRotates(w) PROVE Settings'
  <2>1. /\ fname' = (IF NumberFree THEN NextName ELSE NoName)
        /\ UNCHANGED <<cursize, opendate, faults, starts>>
    BY <1>2 DEF CheckRotates
  <2>2. QED
    BY <1>0, <2>1, NameIsFree DEF Settings
<1>3. ASSUME NEW w \in Writers, Reopen(w) PROVE Settings'
  <2>1. /\ cursize' = 0 + 1 /\ opendate' = DayOfMonth /\ UNCHANGED <<fname, faults, starts>>
    BY <1>3 DEF Reopen, Count
  <2>2. QED
    BY <1>0, <2>1 DEF Settings
<1>4. ASSUME NEW w \in Writers, Rename(w) \/ RenameMissing(w) \/ RotateFails(w)
      PROVE  Settings'
  <2>1. /\ fname' = NoName /\ UNCHANGED <<cursize, opendate, starts>>
        /\ faults' = faults \/ (faults < MaxFaults /\ faults' = faults + 1)
    BY <1>4 DEF Rename, RenameMissing, RotateFails
  <2>2. QED
    BY <1>0, <2>1 DEF Settings
<1>5. CASE Destroy
  BY <1>0, <1>5 DEF Destroy, Settings
<1>6. CASE Restart
  <2>1. /\ fname' = NoName /\ opendate' = DayOfMonth /\ faults' = faults
        /\ starts < MaxStarts /\ starts' = starts + 1
        /\ cursize' = Cardinality(current'.lines)
        /\ current' = IF exists THEN current ELSE Empty
    BY <1>6 DEF Restart
  <2>2. IsFiniteSet(current'.lines)
    BY <2>1, FS_EmptySet DEF Finite, Empty
  <2>3. cursize' \in Nat
    BY <2>1, <2>2, FS_CardinalityType
  <2>4. QED
    BY <1>0, <2>1, <2>3 DEF Settings
<1>7. CASE \/ \E w \in Writers : CallWriteMsg(w) \/ CloseFile(w) \/ PrintLine(w)
           \/ DeleteOldLog \/ Tick \/ UNCHANGED vars
  <2>1. UNCHANGED <<fname, cursize, opendate, faults, starts>>
    BY <1>7 DEF CallWriteMsg, CloseFile, PrintLine, DeleteOldLog, Tick, vars, memory
  <2>2. QED
    BY <1>0, <2>1 DEF Settings
<1>8. QED
  BY <1>1, <1>2, <1>3, <1>4, <1>5, <1>6, <1>7 DEF Next, Write

\* Two flags.
LEMMA FlagsNext == Flags /\ [Next]_vars => Flags'
BY DEF Flags, Next, Write, CallWriteMsg, CheckCounts, CheckRotates, CloseFile, Rename, RenameMissing,
       Reopen, RotateFails, PrintLine, DeleteOldLog, Destroy, Tick, Restart, vars, memory, history

\* The type invariant: the files hold lines of the writers, under names with a number that
\* is allowed (DoRotate), and no writer sends more than it has.
THEOREM RotationTyped == Spec => []TypeOK
<1>1. LockInv /\ CountInv /\ TypeInv => TypeOK
  BY DEF LockInv, Types, CountInv, Counts, TypeInv, Progress, FilesTyped, Settings, Flags,
         TypeOK
<1>2. LockInv /\ CountInv /\ TypeInv /\ [Next]_vars => (LockInv /\ CountInv /\ TypeInv)'
  BY LockNext, CountNext, ProgressNext, FilesNext, SettingsNext, FlagsNext DEF TypeInv, CountInv
<1>3. Init => LockInv /\ CountInv /\ TypeInv
  BY LockInit, CountInit, TypeInit
<1>4. QED
  BY <1>1, <1>2, <1>3, PTL DEF Spec
=============================================================================
