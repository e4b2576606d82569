----------------------------- MODULE FileParts -----------------------------
(***************************************************************************)
(* multithreadReadfile/multiThreadRead.go: main cuts a file into two parts *)
(* of Limit bytes, a goroutine per part reads its words and sends them     *)
(* over a channel to one that counts them in dict.  The goroutines read    *)
(* the variable current of main, which main goes on changing: which part   *)
(* one gets depends on when it begins.  A text is its size and the         *)
(* positions of its spaces, a word the position it begins at; other white  *)
(* space is part of a word.                                                *)
(***************************************************************************)
EXTENDS Integers, FiniteSets, FiniteSetsExt

CONSTANTS Limit,   \* limit, 500 MB in the code
          MaxSize  \* bound: the longest file

ASSUME PartsAssumption == Limit \in Nat \ {0} /\ MaxSize \in Nat

VARIABLES
  there,    \* the file can be opened
  size, spaces,
  main,     \* where main is
  spawned,  \* i of main
  current,  \* the offset of the next part
  wg,       \* the goroutines main waits for
  closed,   \* the channel is closed
  reader,   \* the goroutines that read
  got,      \* the word the counting goroutine has received
  counter,  \* it ranges over the channel, or has signalled done
  dict

input == <<there, size, spaces>>
mains == <<main, spawned, current>>
counts == <<got, counter, dict>>
partVars == <<input, mains, wg, closed, reader, counts>>

Threads == {1, 2}
None == MaxSize + 1
Idle == [state |-> "new", offset |-> 0, pos |-> 0, cummulativeSize |-> 0]

\* The space that ends what begins at pos; None when only the end of the file does.
NextSpace(pos) == IF \A p \in spaces : p < pos THEN None
                  ELSE CHOOSE p \in spaces : p >= pos /\ \A q \in spaces : q >= pos => p <= q

PartsInit ==
  /\ there \in BOOLEAN
  /\ size \in 0..MaxSize
  /\ spaces \in SUBSET (0..(size - 1))
  /\ main = "spawn" /\ spawned = 0 /\ current = 0
  /\ wg = 0
  /\ closed = FALSE
  /\ reader = [t \in Threads |-> Idle]
  /\ got = None /\ counter = "ranging"
  /\ dict = [p \in 0..MaxSize |-> 0]
-----------------------------------------------------------------------------
(* main.                                                                   *)
\* The goroutine is counted before it starts.  Fault: it counts itself.
AddedLate == wg
AddedFirst == wg + 1

Spawn == /\ main = "spawn"
         /\ wg' = AddedFirst
         /\ reader' = [reader EXCEPT ![spawned + 1].state = "ready"]
         /\ main' = "advance"
         /\ UNCHANGED <<input, spawned, current, closed, counts>>

Advance == /\ main = "advance"
           /\ current' = current + Limit + 1
           /\ spawned' = spawned + 1
           /\ main' = IF spawned' < 2 THEN "spawn" ELSE "wait"
           /\ UNCHANGED <<input, wg, closed, reader, counts>>

Close == /\ main = "wait" /\ wg = 0
         /\ closed' = TRUE
         /\ main' = "drain"
         /\ UNCHANGED <<input, spawned, current, wg, reader, counts>>

Return == /\ main = "drain" /\ counter = "done"
          /\ main' = "returned"
          /\ UNCHANGED <<input, spawned, current, wg, closed, reader, counts>>
-----------------------------------------------------------------------------
(* The goroutines that read.  A panic of one ends the program.             *)
Runs == main \notin {"returned", "panic"}
In(t, state) == Runs /\ reader[t].state = state
Move(t, r) == reader' = [reader EXCEPT ![t] = r]
Stays == UNCHANGED <<input, mains, wg, closed, counts>>

\* The arguments of read are taken when the goroutine runs.
Begin(t) == /\ In(t, "ready")
            /\ Move(t, [reader[t] EXCEPT !.state = "open", !.offset = current])
            /\ Stays

OpenFails(t) == /\ In(t, "open") /\ ~there
                /\ main' = "panic"
                /\ UNCHANGED <<input, spawned, current, wg, closed, reader, counts>>

\* Everything up to the first space belongs to the part before.
First(offset) == IF offset = 0 THEN 0
                 ELSE IF NextSpace(offset) = None THEN None ELSE NextSpace(offset) + 1

Open(t) ==
  LET first == First(reader[t].offset) IN
    /\ In(t, "open") /\ there
    /\ Move(t, IF first = None THEN [reader[t] EXCEPT !.state = "leaving"]
               ELSE [reader[t] EXCEPT !.state = "reading", !.pos = first])
    /\ Stays

\* The part is over, or the file: what has no space behind it is dropped.
Stop(t) == /\ In(t, "reading")
           /\ reader[t].cummulativeSize > Limit \/ NextSpace(reader[t].pos) = None
           /\ Move(t, [reader[t] EXCEPT !.state = "leaving"])
           /\ Stays

ReadWord(t) ==
  LET r == reader[t]
      space == NextSpace(r.pos) IN
    /\ In(t, "reading") /\ r.cummulativeSize <= Limit /\ space # None
    /\ Move(t, IF space > r.pos
               THEN [r EXCEPT !.state = "sending", !.cummulativeSize = @ + space + 1 - r.pos]
               ELSE [r EXCEPT !.pos = space + 1, !.cummulativeSize = @ + 1])
    /\ Stays

\* The channel has no buffer: the word is sent when it is received.
Receive(t) ==
  /\ In(t, "sending") /\ counter = "ranging" /\ got = None
  /\ got' = reader[t].pos
  /\ Move(t, [reader[t] EXCEPT !.state = "reading", !.pos = NextSpace(reader[t].pos) + 1])
  /\ UNCHANGED <<input, mains, wg, closed, counter, dict>>

Leave(t) == /\ In(t, "leaving")
            /\ wg' = wg - 1
            /\ Move(t, [reader[t] EXCEPT !.state = "done"])
            /\ UNCHANGED <<input, mains, closed, counts>>
-----------------------------------------------------------------------------
(* The goroutine that counts.                                              *)
Count == /\ Runs /\ got # None
         /\ dict' = [dict EXCEPT ![got] = @ + 1]
         /\ got' = None
         /\ UNCHANGED <<input, mains, wg, closed, reader, counter>>

SignalDone == /\ Runs /\ counter = "ranging" /\ got = None /\ closed
          /\ counter' = "done"
          /\ UNCHANGED <<input, mains, wg, closed, reader, got, dict>>

PartsNext ==
  \/ Spawn \/ Advance \/ Close \/ Return \/ Count \/ SignalDone
  \/ \E t \in Threads : \/ Begin(t) \/ OpenFails(t) \/ Open(t) \/ Stop(t)
                        \/ ReadWord(t) \/ Receive(t) \/ Leave(t)

PartsSpec == PartsInit /\ [][PartsNext]_partVars
-----------------------------------------------------------------------------
Starts == {0} \union {p + 1 : p \in spaces}
Words == {p \in Starts : NextSpace(p) # None /\ NextSpace(p) > p}

\* The words of the part that begins at an offset: those that begin in the Limit + 1
\* bytes after its first space, or after the beginning of the file.
Part(offset) ==
  LET begin == IF offset = 0 THEN 0 ELSE Min({p + 1 : p \in {q \in spaces : q >= offset}})
  IN  IF \A p \in spaces : p < offset THEN {} ELSE {p \in Words : p \in begin..(begin + Limit)}

\* When main returns, every word has been counted as often as there are parts it lies
\* in, whenever the goroutines have read current: nothing is still on its way.  In the
\* order main expects, with parts at 0 and Limit + 1, none is counted twice, and of
\* those that begin in the first part none is missing.
InOrder == reader[1].offset = 0 /\ reader[2].offset = Limit + 1
CountsExact ==
  main = "returned" =>
    \A p \in Words :
      /\ dict[p] = Cardinality({t \in Threads : p \in Part(reader[t].offset)})
      /\ InOrder => dict[p] <= 1 /\ (p <= Limit => dict[p] = 1)
=============================================================================
