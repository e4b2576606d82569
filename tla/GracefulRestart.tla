--------------------------- MODULE GracefulRestart ---------------------------
(***************************************************************************)
(* gracefull_server/tcp/server.go: a server process that forks a child on  *)
(* SIGHUP or SIGUSR2, passes it the file of its listener, and shuts down   *)
(* on SIGHUP, SIGINT and SIGQUIT.  The processes hold references to the    *)
(* listening socket of the kernel, which keeps the connections nobody has  *)
(* accepted yet and resets them when the last reference is closed.  A      *)
(* connection carries one request.  The kernel and net/http are external.  *)
(***************************************************************************)
EXTENDS Naturals

CONSTANTS Conns,     \* connections of clients
          MaxProcs,  \* bound: processes started
          MaxFaults  \* bound: failing forks, failing imports and killed processes

ASSUME RestartAssumption == MaxProcs \in Nat \ {0} /\ MaxFaults \in Nat

VARIABLES
  proc,    \* where main of each process is, see ProcStates
  serve,   \* its goroutine has entered Serve
  sock,    \* the socket it holds, named by the process that created it, or 0
  conn,    \* the state of each connection, see ConnStates
  at,      \* the socket a connection is queued at, or the process serving it
  faults,
  slow,    \* history: a Shutdown ran out of time
  trouble  \* history: a process was killed or failed to start, or the operator
           \* stopped the only server

history == <<slow, trouble>>
restartVars == <<proc, serve, sock, conn, at, faults, history>>

Procs == 1..MaxProcs

(***************************************************************************)
(* boot: started, holds the inherited file if there is one; create: before *)
(* net.Listen; bound: has a listener; wait: in the loop of waitForSignals; *)
(* closing: about to call Shutdown; draining: Shutdown waits.              *)
(***************************************************************************)
ProcStates == {"none", "boot", "create", "bound", "wait", "closing", "draining",
               "exited"}
ConnStates == {"new", "queued", "open", "served", "cut", "refused", "reset"}

RestartInit == /\ proc = [p \in Procs |-> IF p = 1 THEN "boot" ELSE "none"]
               /\ serve = [p \in Procs |-> FALSE]
               /\ sock = [p \in Procs |-> 0]
               /\ conn = [c \in Conns |-> "new"]
               /\ at = [c \in Conns |-> 0]
               /\ faults = 0
               /\ slow = FALSE
               /\ trouble = FALSE

Running(p) == proc[p] \notin {"none", "exited"}
Sockets(s) == {s[p] : p \in Procs} \ {0}
MainGoes(p, pc) == proc' = [proc EXCEPT ![p] = pc]
Open(p) == {c \in Conns : conn[c] = "open" /\ at[c] = p}

\* p closes its reference to the socket; with the last one its queue is reset.
Reset(s) == [c \in Conns |-> IF conn[c] = "queued" /\ at[c] \notin Sockets(s)
                               THEN "reset" ELSE conn[c]]
Release(p) == /\ sock' = [sock EXCEPT ![p] = 0]
              /\ conn' = Reset(sock')

\* p ends: its references go, and the connections it serves are cut.
Leave(p) == /\ MainGoes(p, "exited")
            /\ sock' = [sock EXCEPT ![p] = 0]
            /\ conn' = [c \in Conns |-> IF c \in Open(p) THEN "cut" ELSE Reset(sock')[c]]
-----------------------------------------------------------------------------
\* createOrImportListener.
Import(p) == /\ proc[p] = "boot"
             /\ sock[p] # 0
             /\ MainGoes(p, "bound")
             /\ UNCHANGED <<serve, sock, conn, at, faults, history>>

NothingToImport(p) == /\ proc[p] = "boot"
                      /\ sock[p] = 0
                      /\ MainGoes(p, "create")
                      /\ UNCHANGED <<serve, sock, conn, at, faults, history>>

ImportFails(p) == /\ proc[p] = "boot"
                  /\ sock[p] # 0
                  /\ faults < MaxFaults
                  /\ faults' = faults + 1
                  /\ Release(p)
                  /\ MainGoes(p, "create")
                  /\ trouble' = TRUE
                  /\ UNCHANGED <<serve, at, slow>>

\* net.Listen needs the address for itself.
AddressFree == Sockets(sock) = {}

Create(p) == /\ proc[p] = "create"
             /\ AddressFree
             /\ sock' = [sock EXCEPT ![p] = p]
             /\ MainGoes(p, "bound")
             /\ UNCHANGED <<serve, conn, at, faults, history>>

\* The address is in use: os.Exit(1).
CreateFails(p) == /\ proc[p] = "create"
                  /\ ~AddressFree
                  /\ MainGoes(p, "exited")
                  /\ UNCHANGED <<serve, sock, conn, at, faults, history>>

\* The goroutine of startServer.  After Shutdown, Serve closes the listener.
ServeStarts(p) == /\ proc[p] \in {"bound", "wait", "closing", "draining"}
                  /\ ~serve[p]
                  /\ serve' = [serve EXCEPT ![p] = TRUE]
                  /\ IF proc[p] = "draining" THEN Release(p) ELSE UNCHANGED <<sock, conn>>
                  /\ UNCHANGED <<proc, at, faults, history>>

\* signal.Notify: before it a signal kills the process, see Killed.
Notify(p) == /\ proc[p] = "bound"
             /\ MainGoes(p, "wait")
             /\ UNCHANGED <<serve, sock, conn, at, faults, history>>
-----------------------------------------------------------------------------
\* The file a child inherits.  Fault: none is passed.
NoFile(p) == 0
Inherited(p) == sock[p]

\* forkChild starts the next process, which inherits the listener's file.
Fork(p, pc) == \E q \in Procs :
  /\ proc[q] = "none"
  /\ \A r \in 1..(q - 1) : proc[r] # "none"
  /\ proc' = [proc EXCEPT ![q] = "boot", ![p] = pc]
  /\ sock' = [sock EXCEPT ![q] = Inherited(p)]

\* Fault: SIGHUP shuts down although there is no child.
ShutsDown == "closing"
Continues == "wait"

Hup(p) == /\ proc[p] = "wait"
          /\ Fork(p, "closing")
          /\ UNCHANGED <<serve, conn, at, faults, history>>

Usr2(p) == /\ proc[p] = "wait"
           /\ Fork(p, "wait")
           /\ UNCHANGED <<serve, conn, at, faults, history>>

ForkFails(p) == /\ proc[p] = "wait"
                /\ faults < MaxFaults
                /\ faults' = faults + 1
                /\ MainGoes(p, Continues)
                /\ UNCHANGED <<serve, sock, conn, at, history>>

\* Other processes that serve or are about to serve p's socket.
Successors(p) == {q \in Procs \ {p} : /\ sock[q] = sock[p]
                                      /\ proc[q] \in {"boot", "bound", "wait"}}

Stop(p) == /\ proc[p] = "wait"
           /\ MainGoes(p, "closing")
           /\ trouble' = (trouble \/ Successors(p) = {})
           /\ UNCHANGED <<serve, sock, conn, at, faults, slow>>

\* Shutdown closes the listener that Serve knows ...
Shutdown(p) == /\ proc[p] = "closing"
               /\ MainGoes(p, "draining")
               /\ IF serve[p] THEN Release(p) ELSE UNCHANGED <<sock, conn>>
               /\ UNCHANGED <<serve, at, faults, history>>

\* ... and returns when no connection is left.
NoneOpen(p) == Open(p) = {}

Exit(p) == /\ proc[p] = "draining"
           /\ NoneOpen(p)
           /\ Leave(p)
           /\ UNCHANGED <<serve, at, faults, history>>

\* Five seconds are over.
TimeOut(p) == /\ proc[p] = "draining"
              /\ Open(p) # {}
              /\ slow' = TRUE
              /\ Leave(p)
              /\ UNCHANGED <<serve, at, faults, trouble>>

\* A signal that is not, or not yet, handled.
Killed(p) == /\ Running(p)
             /\ faults < MaxFaults
             /\ faults' = faults + 1
             /\ Leave(p)
             /\ trouble' = TRUE
             /\ UNCHANGED <<serve, at, slow>>
-----------------------------------------------------------------------------
\* A client connects, once the first server has come up.
Connect(c) == /\ conn[c] = "new"
              /\ proc[1] \notin {"boot", "create"}
              /\ \/ /\ Sockets(sock) = {}
                    /\ conn' = [conn EXCEPT ![c] = "refused"]
                    /\ at' = at
                 \/ /\ conn' = [conn EXCEPT ![c] = "queued"]
                    /\ \E s \in Sockets(sock) : at' = [at EXCEPT ![c] = s]
              /\ UNCHANGED <<proc, serve, sock, faults, history>>

Accept(p, c) == /\ serve[p]
                /\ conn[c] = "queued"
                /\ sock[p] = at[c]
                /\ conn' = [conn EXCEPT ![c] = "open"]
                /\ at' = [at EXCEPT ![c] = p]
                /\ UNCHANGED <<proc, serve, sock, faults, history>>

Respond(c) == /\ conn[c] = "open"
              /\ conn' = [conn EXCEPT ![c] = "served"]
              /\ UNCHANGED <<proc, serve, sock, at, faults, history>>
-----------------------------------------------------------------------------
Start(p) == \/ Import(p) \/ NothingToImport(p) \/ Create(p) \/ CreateFails(p)
            \/ Notify(p)

Signalled(p) == Hup(p) \/ Usr2(p) \/ Stop(p) \/ ForkFails(p)

RestartNext == \/ \E p \in Procs : \/ Start(p) \/ ImportFails(p) \/ ServeStarts(p)
                                   \/ Signalled(p) \/ Shutdown(p) \/ Exit(p)
                                   \/ TimeOut(p) \/ Killed(p)
               \/ \E c \in Conns : Connect(c) \/ Respond(c) \/ \E p \in Procs : Accept(p, c)

RestartSpec == RestartInit /\ [][RestartNext]_restartVars

\* Processes and goroutines run; signals, faults and clients are not forced.
RestartFairness ==
  /\ \A p \in Procs : /\ WF_restartVars(Start(p)) /\ WF_restartVars(ServeStarts(p))
                      /\ WF_restartVars(Shutdown(p)) /\ WF_restartVars(Exit(p))
  /\ \A c \in Conns : WF_restartVars(Respond(c)) /\ WF_restartVars(\E p \in Procs : Accept(p, c))

RestartFairSpec == RestartSpec /\ RestartFairness
-----------------------------------------------------------------------------
\* The type invariant; all processes hold the same socket.
RestartTypeOK == /\ proc \in [Procs -> ProcStates]
                 /\ serve \in [Procs -> BOOLEAN]
                 /\ sock \in [Procs -> Procs \union {0}]
                 /\ \A p, q \in Procs : 0 \notin {sock[p], sock[q]} => sock[p] = sock[q]
                 /\ \A p \in Procs : ~Running(p) => sock[p] = 0
                 /\ conn \in [Conns -> ConnStates]
                 /\ at \in [Conns -> Procs \union {0}]
                 /\ faults \in 0..MaxFaults
                 /\ slow \in BOOLEAN /\ trouble \in BOOLEAN

\* No number of upgrades, in any order of their steps and with forks that fail,
\* turns a client away: connections are refused or reset only after a process was
\* killed or failed to start, or the operator stopped the only server; and a request
\* that was accepted is cut only for the same reasons, or when its handler takes
\* longer than the time Shutdown grants.
NoOutage == \A c \in Conns : /\ conn[c] \in {"refused", "reset"} => trouble
                             /\ conn[c] = "cut" => slow \/ trouble

\* A client whose connection the kernel has queued gets its answer, from whichever
\* process is left after the upgrades, unless one of the troubles above occurs.
Answered == \A c \in Conns :
  conn[c] = "queued" ~> conn[c] \in {"served", "cut"} \/ trouble
=============================================================================
