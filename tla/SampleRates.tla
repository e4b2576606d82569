----------------------------- MODULE SampleRates -----------------------------
(***************************************************************************)
(* gracefull_server/http/http_server.go: the handlers of the HTTP server   *)
(* share SampleConfig, whose map UriRate is guarded by rwlock, and whoever *)
(* changes it dumps the whole of it to configFile, which init loads.  Dump *)
(* reads the map and writes the file without the lock.  A request is       *)
(* handled by a goroutine; a rate is the value of a uri, NoRate if none.   *)
(* The server is one of endless, external here: on SIGHUP a process forks  *)
(* a child, which runs init while its parent goes on serving, and is told  *)
(* by the child to leave.  Both have a SampleConfig, and one file.         *)
(***************************************************************************)
EXTENDS Naturals, FiniteSets

CONSTANTS Processes,
          Handlers,      \* goroutines that serve requests
          Process,       \* the process each of them is in
          Uris, Rates,
          Expires,       \* values of Expire that requests set
          NoRate,
          DefaultExpire, \* Expire as init sets it
          DefaultConf,   \* -conf is not given
          MaxRequests,   \* bound: requests that are handled
          MaxFaults      \* bound: processes killed and failing writes of the file

ASSUME RatesAssumption == /\ NoRate \notin Rates /\ DefaultConf \in BOOLEAN
                          /\ Process \in [Handlers -> Processes]
                          /\ MaxRequests \in Nat /\ MaxFaults \in Nat

VARIABLES
  pc,       \* where each goroutine is, see HandlerStates
  req,      \* the request it handles
  seen,     \* what it has read of SampleConfig
  config,   \* SampleConfig of each process: UriRate and Expire
  file,     \* configFile: whether it is a whole config, and which
  state,    \* where each process is, see ProcessStates
  requests, faults,
  alone,    \* history: the goroutines in Dump with which no other was
  overlap   \* history: two goroutines were in Dump at the same time, or a dump failed,
            \* was cut short by the end of its process or left another process with
            \* other rates, and none ran alone since that did not

bounds == <<requests, faults>>
history == <<alone, overlap>>
vars == <<pc, req, seen, config, file, state, bounds, history>>

(***************************************************************************)
(* lock: at rwlock.Lock; write: holds it, in the write of the map; check:  *)
(* in the unlocked read of del_uri_rate; rlock, read: at and under RLock;  *)
(* dump: about to call Dump; marshal: json reads the map; encoded: has the *)
(* text; truncated: has emptied the file and not written to it yet.  For    *)
(* rows and points see SampleReports.                                      *)
(***************************************************************************)
Changing == {"lock", "write", "check", "dump", "marshal", "encoded", "truncated"}
HandlerStates == Changing \union {"idle", "rlock", "read", "rows", "points"}

\* starting: init has run; forked: serves and has a child, the only one it may have;
\* leaving: has closed the listener and waits for its handlers.
ProcessStates == {"down", "starting", "serving", "forked", "leaving"}

Config == [rates : [Uris -> Rates \union {NoRate}], expire : Expires \union {DefaultExpire}]
Default == [rates |-> [u \in Uris |-> NoRate], expire |-> DefaultExpire]

Requests == [op : {"add"}, uri : Uris, rate : Rates]
              \union [op : {"del"}, uri : Uris, rate : {NoRate}]
              \union [op : {"expire"}, value : Expires]
              \union [op : {"pull"}]

Init == /\ pc = [h \in Handlers |-> "idle"]
        /\ req = [h \in Handlers |-> [op |-> "pull"]]
        /\ seen = [h \in Handlers |-> Default]
        /\ config = [p \in Processes |-> Default]
        /\ file = [is |-> "absent", config |-> Default]
        /\ state = [p \in Processes |-> "down"]
        /\ requests = 0
        /\ faults = 0
        /\ alone = {}
        /\ overlap = FALSE

In(states) == {h \in Handlers : pc[h] \in states}
Dumping == In({"marshal", "encoded", "truncated"})
Goto(h, s) == pc' = [pc EXCEPT ![h] = s]

Of(p) == {h \in Handlers : Process[h] = p}
Own(h) == config[Process[h]]
Up(p) == state[p] # "down"
Accepts(p) == state[p] \in {"serving", "forked"}
-----------------------------------------------------------------------------
\* The first step of each handler.
FirstStep(r) == CASE r.op = "add" -> "lock"
                  [] r.op = "del" -> "check"
                  [] r.op = "expire" -> "dump"
                  [] r.op = "pull" -> "rlock"

\* mode_rate_expire sets Expire at once, without the lock.
Request(h) == /\ pc[h] = "idle" /\ Accepts(Process[h])
              /\ requests < MaxRequests
              /\ requests' = requests + 1
              /\ \E r \in Requests :
                   /\ req' = [req EXCEPT ![h] = r]
                   /\ Goto(h, FirstStep(r))
                   /\ config' = IF r.op = "expire"
                                  THEN [config EXCEPT ![Process[h]].expire = r.value]
                                  ELSE config
              /\ UNCHANGED <<seen, file, state, faults, history>>

\* rwlock of the process.  Fault: a writer does not wait for readers.
NoWriter(h) == In({"write"}) \intersect Of(Process[h]) = {}
LockFree(h) == In({"write", "read"}) \intersect Of(Process[h]) = {}

ReadLockFree(h) == In({"write"}) \intersect Of(Process[h]) = {}

Lock(h) == /\ pc[h] = "lock"
           /\ LockFree(h)
           /\ Goto(h, "write")
           /\ UNCHANGED <<req, seen, config, file, state, bounds, history>>

\* Fault: the change is not dumped.
NotDumped == "idle"
Dumped == "dump"

\* The map is changed and the lock released.
Write(h) == /\ pc[h] = "write"
            /\ config' = [config EXCEPT ![Process[h]].rates[req[h].uri] = req[h].rate]
            /\ Goto(h, Dumped)
            /\ UNCHANGED <<req, seen, file, state, bounds, history>>

Check(h) == /\ pc[h] = "check"
            /\ Goto(h, IF Own(h).rates[req[h].uri] # NoRate THEN "lock" ELSE "dump")
            /\ UNCHANGED <<req, seen, config, file, state, bounds, history>>

\* get_sample_rate_by_uid and its callees: RLock, read what is asked for, RUnlock.
ReadLock(h) == /\ pc[h] = "rlock"
               /\ ReadLockFree(h)
               /\ seen' = [seen EXCEPT ![h] = Own(h)]
               /\ Goto(h, "read")
               /\ UNCHANGED <<req, config, file, state, bounds, history>>

ReadUnlock(h) == /\ pc[h] = "read"
                 /\ Goto(h, "idle")
                 /\ UNCHANGED <<req, seen, config, file, state, bounds, history>>

\* A uid below the sampling rate is answered without a look at the map.
NotSampled(h) == /\ pc[h] = "rlock"
                 /\ Goto(h, "idle")
                 /\ UNCHANGED <<req, seen, config, file, state, bounds, history>>
-----------------------------------------------------------------------------
MarshalBegins(h) == /\ pc[h] = "dump"
                    /\ seen' = [seen EXCEPT ![h] = Own(h)]
                    /\ Goto(h, "marshal")
                    /\ alone' = IF Dumping = {} THEN {h} ELSE {}
                    /\ overlap' = (overlap \/ Dumping # {})
                    /\ UNCHANGED <<req, config, file, state, bounds>>

\* The map may change while it is read: each rate is the old or the new one.
MarshalEnds(h) ==
  /\ pc[h] = "marshal"
  /\ \E new \in SUBSET Uris, e \in {seen[h].expire, Own(h).expire} :
       seen' = [seen EXCEPT ![h] =
         [rates |-> [u \in Uris |-> IF u \in new THEN Own(h).rates[u]
                                                 ELSE seen[h].rates[u]],
          expire |-> e]]
  /\ Goto(h, "encoded")
  /\ UNCHANGED <<req, config, file, state, bounds, history>>

Truncate(h) == /\ pc[h] = "encoded"
               /\ file' = [file EXCEPT !.is = "empty"]
               /\ Goto(h, "truncated")
               /\ UNCHANGED <<req, seen, config, state, bounds, history>>

\* Another process that runs has other rates than this one has written.
LeavesOthers(h) == \E q \in Processes \ {Process[h]} : Up(q) /\ config[q] # seen[h]

\* Over what another goroutine has written since, a shorter text leaves a rest.
WriteFile(h) == /\ pc[h] = "truncated"
                /\ \/ file' = [is |-> "whole", config |-> seen[h]]
                   \/ file.is # "empty" /\ file' = [file EXCEPT !.is = "garbled"]
                /\ overlap' = ((overlap /\ h \notin alone) \/ LeavesOthers(h))
                /\ Goto(h, "idle")
                /\ UNCHANGED <<req, seen, config, state, bounds, alone>>

\* The file cannot be opened, or not be written, and the handler answers all the same.
WriteFails(h) == /\ pc[h] \in {"encoded", "truncated"}
                 /\ faults < MaxFaults
                 /\ faults' = faults + 1
                 /\ overlap' = TRUE
                 /\ Goto(h, "idle")
                 /\ UNCHANGED <<req, seen, config, file, state, requests, alone>>
-----------------------------------------------------------------------------
Dies(p) == /\ state' = [state EXCEPT ![p] = "down"]
           /\ pc' = [h \in Handlers |-> IF Process[h] = p THEN "idle" ELSE pc[h]]
           /\ overlap' = (overlap \/ In(Changing) \intersect Of(p) # {})
           /\ UNCHANGED <<req, seen, config, file, requests, alone>>

\* A map that is read and written at once: the runtime may notice and exit.
MapRace(p) == /\ In({"write"}) \intersect Of(p) # {}
              /\ In({"marshal", "check"}) \intersect Of(p) # {}
              /\ Dies(p)
              /\ UNCHANGED faults

Killed(p) == /\ Up(p)
             /\ faults < MaxFaults
             /\ faults' = faults + 1
             /\ Dies(p)

\* Load takes a file only as a whole, over the start values of init.  It comes before
\* flag.Parse, so it is the file -conf has by default, here absent if -conf names another.
Saved == IF file.is = "whole" THEN file.config ELSE Default
Loaded == IF DefaultConf THEN Saved ELSE Default

init(p) == /\ ~Up(p)
           /\ config' = [config EXCEPT ![p] = Loaded]
           /\ UNCHANGED <<pc, req, seen, file, bounds, history>>

Start(p) == /\ \A q \in Processes : ~Up(q)
            /\ init(p)
            /\ state' = [state EXCEPT ![p] = "starting"]

\* SIGHUP: the child inherits the listener.
Fork(p) == /\ state[p] = "serving"
           /\ \E child \in Processes :
                /\ init(child)
                /\ state' = [state EXCEPT ![p] = "forked", ![child] = "starting"]

\* ListenAndServe, and SIGTERM, which a child sends to its parent then.
Serve(p) == /\ state[p] = "starting"
            /\ state' = [state EXCEPT ![p] = "serving"]
            /\ UNCHANGED <<pc, req, seen, config, file, bounds, history>>

Shutdown(p) == /\ Accepts(p)
               /\ state' = [state EXCEPT ![p] = "leaving"]
               /\ UNCHANGED <<pc, req, seen, config, file, bounds, history>>

\* main panics without a database, or returns; handlers that endless has waited for too
\* long are cut off.
Exit(p) == /\ state[p] \in {"starting", "leaving"}
           /\ Dies(p)
           /\ UNCHANGED faults
-----------------------------------------------------------------------------
Change(h) == Lock(h) \/ Write(h) \/ Check(h)
Pull(h) == ReadLock(h) \/ ReadUnlock(h) \/ NotSampled(h)
Dump(h) == MarshalBegins(h) \/ MarshalEnds(h) \/ Truncate(h) \/ WriteFile(h)

Handle(h) == Change(h) \/ Pull(h) \/ Dump(h)

Live(p) == Start(p) \/ Fork(p) \/ Serve(p) \/ Shutdown(p) \/ Exit(p)

Next == \/ \E h \in Handlers : Request(h) \/ Handle(h) \/ WriteFails(h)
        \/ \E p \in Processes : Live(p) \/ MapRace(p) \/ Killed(p)

Spec == Init /\ [][Next]_vars
-----------------------------------------------------------------------------
\* The type invariant; the lock has one writer or any readers.
TypeOK == /\ pc \in [Handlers -> HandlerStates]
          /\ \A h \in Handlers : req[h] \in Requests /\ seen[h] \in Config
          /\ config \in [Processes -> Config]
          /\ file \in [is : {"absent", "empty", "garbled", "whole"}, config : Config]
          /\ state \in [Processes -> ProcessStates] /\ overlap \in BOOLEAN
          /\ alone \subseteq Handlers
          /\ \A p \in Processes : In({"write"}) \intersect Of(p) # {} =>
               /\ In({"read"}) \intersect Of(p) = {}
               /\ Cardinality(In({"write"}) \intersect Of(p)) = 1
          /\ requests \in 0..MaxRequests /\ faults \in 0..MaxFaults

\* A pull answers with the rates of one moment: no add or delete, which may run at
\* the same time, changes the map between the first and the last rate it reads.
PullConsistent == \A h \in In({"read"}) : seen[h].rates = Own(h).rates

\* When no handler is at work, the file holds what every process holds, and one that
\* starts from it goes on with the same rates, also in a hot restart, unless two dumps
\* overlapped, where the older one may be written last, or one failed, or one was
\* written by the parent or the child when the other had loaded or set other rates,
\* and no later dump ran alone.
FileCurrent == DefaultConf /\ ~overlap /\ In(Changing) = {} =>
  \A p \in Processes : Up(p) => config[p] = Saved

\* -conf is the "app uri rate config" (http_server.go:39): its file holds what the
\* processes hold, as above.  It does not hold when -conf is given: init loads another.
ConfFileUsed == ~overlap /\ In(Changing) = {} =>
  \A p \in Processes : Up(p) => config[p] = Saved
=============================================================================
