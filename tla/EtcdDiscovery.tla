--------------------------- MODULE EtcdDiscovery ---------------------------
(***************************************************************************)
(* grpc-lb/etcdv3: servers register their address in etcd under a lease    *)
(* (register.go, used as cmd/svr/svr.go does) and the resolver of a client *)
(* follows the keys (resolver.go).  Etcd itself is external: a store of    *)
(* keys, each attached to a lease, and the log of its put and delete       *)
(* events, in order.  A server has one key and one address, so both are    *)
(* named by the server; the strings of key and address differ.             *)
(***************************************************************************)
EXTENDS Naturals, Sequences, FiniteSets

CONSTANTS Servers,
          MaxStarts   \* bound: restarts of server processes

ASSUME DiscoveryAssumption == MaxStarts \in Nat

VARIABLES
  server,     \* where main and Register of a server process are, see ServerStates
  helper,     \* the goroutine of Register that waits on Deregister
  stopper,    \* the signal goroutine of main, which calls UnRegister
  undeleted,  \* history: the servers whose process failed to delete its key
  starts,     \* restarts so far
  lease,      \* the lease of the current process
  store,      \* the lease each key is attached to: of this process or an older one
  log,        \* the events of etcd
  resolver,   \* where watch is
  addrDict,   \* entries of addrDict: kind of map key, server
  published,  \* addrDict at the last UpdateState
  from, seen  \* the watch delivers log[from + 1 .. ]; it has delivered up to seen

process == <<server, helper, stopper, undeleted, starts>>
etcd == <<lease, store, log>>
client == <<resolver, addrDict, published, from, seen>>
vars == <<process, etcd, client>>

ServerStates == {"start", "granted", "put", "serving", "down"}
HelperStates == {"none", "wait", "delete", "reply", "done"}
StopperStates == {"none", "request", "reply", "done"}
Kinds == {"value", "key"}

Init == /\ server = [s \in Servers |-> "start"]
        /\ helper = [s \in Servers |-> "none"]
        /\ stopper = [s \in Servers |-> "none"]
        /\ undeleted = {}
        /\ starts = 0
        /\ lease = [s \in Servers |-> "none"]
        /\ store = [s \in Servers |-> "absent"]
        /\ log = <<>>
        /\ resolver = "get"
        /\ addrDict = {}
        /\ published = {}
        /\ from = 0
        /\ seen = 0

Step(f, s, v) == [f EXCEPT ![s] = v]
Event(type, s) == log' = Append(log, [type |-> type, server |-> s])
Up(s) == server[s] # "down"
-----------------------------------------------------------------------------
\* Register: Grant, Put under the lease, KeepAlive, then the helper goroutine.
Grant(s) == /\ server[s] = "start"
            /\ server' = Step(server, s, "granted")
            /\ lease' = Step(lease, s, "live")
            /\ UNCHANGED <<helper, stopper, undeleted, starts, store, log, client>>

\* The key is put under the lease.  Fault: without WithLease.
NoLease == "unleased"
UnderLease == "current"

Put(s) == /\ server[s] = "granted"
          /\ lease[s] = "live"
          /\ server' = Step(server, s, "put")
          /\ store' = Step(store, s, UnderLease)
          /\ Event("PUT", s)
          /\ UNCHANGED <<helper, stopper, undeleted, starts, lease, client>>

KeepAlive(s) == /\ server[s] = "put"
                /\ server' = Step(server, s, "serving")
                /\ helper' = Step(helper, s, "wait")
                /\ UNCHANGED <<stopper, undeleted, starts, etcd, client>>

\* main's goroutine receives a signal and calls UnRegister.
Signal(s) == /\ server[s] = "serving"
             /\ stopper[s] = "none"
             /\ stopper' = Step(stopper, s, "request")
             /\ UNCHANGED <<server, helper, undeleted, starts, etcd, client>>

\* The unbuffered Deregister carries the request ...
Request(s) == /\ stopper[s] = "request" /\ helper[s] = "wait"
              /\ stopper' = Step(stopper, s, "reply")
              /\ helper' = Step(helper, s, "delete")
              /\ UNCHANGED <<server, undeleted, starts, etcd, client>>

\* The helper deletes the key and goes on to reply, whatever Delete returned.
Deletes(s) == /\ IF store[s] # "absent"
                   THEN store' = Step(store, s, "absent") /\ Event("DELETE", s)
                   ELSE UNCHANGED <<store, log>>
              /\ UNCHANGED undeleted

DeleteFails(s) == /\ undeleted' = undeleted \union {s}
                  /\ UNCHANGED <<store, log>>

Delete(s) == /\ helper[s] = "delete"
             /\ helper' = Step(helper, s, "reply")
             /\ Deletes(s) \/ DeleteFails(s)
             /\ UNCHANGED <<server, stopper, starts, lease, client>>

\* ... and the reply, after which main exits.  Fault: the reply before the deletion.
RepliesFirst(s) == helper[s] \in {"delete", "reply"}
Replies(s) == helper[s] = "reply"

Reply(s) == /\ stopper[s] = "reply" /\ Replies(s)
            /\ stopper' = Step(stopper, s, "done")
            /\ helper' = Step(helper, s, "done")
            /\ UNCHANGED <<server, undeleted, starts, etcd, client>>

Gone(s) == /\ server' = Step(server, s, "down")
           /\ helper' = Step(helper, s, "none")
           /\ stopper' = Step(stopper, s, "none")
           /\ undeleted' = undeleted \ {s}
           /\ UNCHANGED <<starts, etcd, client>>

Exit(s) == stopper[s] = "done" /\ Gone(s)

\* The process dies: killed, a signal before signal.Notify, or the panic of main
\* on an error of Register, such as a Put under an expired lease.
Crash(s) == Up(s) /\ Gone(s)

Restart(s) == /\ server[s] = "down"
              /\ starts < MaxStarts
              /\ starts' = starts + 1
              /\ server' = Step(server, s, "start")
              /\ lease' = Step(lease, s, "none")
              /\ store' = IF store[s] = "current" THEN Step(store, s, "older") ELSE store
              /\ UNCHANGED <<helper, stopper, undeleted, log, client>>
-----------------------------------------------------------------------------
\* Etcd drops the lease of a process that is gone or cannot be reached for the
\* lease's lifetime, with the key attached to it.
Expire(s) == /\ lease[s] = "live"
             /\ lease' = Step(lease, s, "expired")
             /\ IF store[s] = "current"
                  THEN store' = Step(store, s, "absent") /\ Event("DELETE", s)
                  ELSE UNCHANGED <<store, log>>
             /\ UNCHANGED <<process, client>>

\* The same for the lease of an earlier process of the same server.
ExpireOlder(s) == /\ store[s] = "older"
                  /\ store' = Step(store, s, "absent")
                  /\ Event("DELETE", s)
                  /\ UNCHANGED <<process, lease, client>>
-----------------------------------------------------------------------------
\* The resolver loads the keys there are, each entered under its value, or goes
\* on with none when Get fails.
Get == /\ resolver = "get"
       /\ resolver' = "watch"
       /\ \/ addrDict' = {"value"} \X {s \in Servers : store[s] # "absent"}
          \/ addrDict' = {}
       /\ published' = addrDict'
       /\ UNCHANGED <<process, etcd, from, seen>>

\* Watch delivers the events after it, not those since Get.
WatchFrom == Len(log)

Watch == /\ resolver = "watch"
         /\ resolver' = "loop"
         /\ from' = WatchFrom
         /\ seen' = WatchFrom
         /\ UNCHANGED <<process, etcd, addrDict, published>>

\* A PUT enters the address under its key and a DELETE removes that entry.
Apply(d, e) == IF e.type = "PUT" THEN d \union {<<"key", e.server>>}
                                 ELSE d \ {<<"key", e.server>>}

\* Fault: a response with several events is handled as one with its first.
ApplyFirst(d, n) == Apply(d, log[seen + 1])
ApplyAll(d, n) == LET f[i \in 0..n] == IF i = 0 THEN d
                                       ELSE Apply(f[i - 1], log[seen + i])
                  IN  f[n]

\* One response of the watch channel, with the next n events.
WatchResponse == /\ resolver = "loop"
                 /\ \E n \in 1..(Len(log) - seen) :
                      /\ addrDict' = ApplyAll(addrDict, n)
                      /\ seen' = seen + n
                 /\ published' = addrDict'
                 /\ UNCHANGED <<process, etcd, resolver, from>>
-----------------------------------------------------------------------------
Serve(s) == Grant(s) \/ Put(s) \/ KeepAlive(s)

Unregister(s) == Request(s) \/ Delete(s) \/ Reply(s) \/ Exit(s)

Follow == Get \/ Watch \/ WatchResponse

Next == \/ \E s \in Servers : \/ Serve(s) \/ Signal(s) \/ Unregister(s)
                              \/ Crash(s) \/ Restart(s)
                              \/ Expire(s) \/ ExpireOlder(s)
        \/ Follow

Spec == Init /\ [][Next]_vars

\* The goroutines run, etcd delivers events, and the leases of the dead expire.
Fairness == /\ WF_vars(Follow)
            /\ \A s \in Servers :
                 /\ WF_vars(Unregister(s))
                 /\ WF_vars(server[s] = "down" /\ Expire(s))
                 /\ WF_vars(ExpireOlder(s))

FairSpec == Spec /\ Fairness
-----------------------------------------------------------------------------
\* The type invariant; the watch never runs ahead of etcd.
TypeOK == /\ server \in [Servers -> ServerStates]
          /\ helper \in [Servers -> HelperStates]
          /\ stopper \in [Servers -> StopperStates]
          /\ undeleted \subseteq Servers
          /\ starts \in 0..MaxStarts
          /\ lease \in [Servers -> {"none", "live", "expired"}]
          /\ store \in [Servers -> {"absent", "older", "current"}]
          /\ log \in Seq([type : {"PUT", "DELETE"}, server : Servers])
          /\ resolver \in {"get", "watch", "loop"}
          /\ addrDict \subseteq Kinds \X Servers /\ published \subseteq Kinds \X Servers
          /\ from \in 0..Len(log) /\ seen \in from..Len(log)

Published(s) == \E k \in Kinds : <<k, s>> \in published
Stored(s) == store[s] # "absent"
CaughtUp == resolver = "loop" /\ seen = Len(log)

\* Whether one of the events lo + 1 .. hi is about s.
Touched(s, lo, hi) == \E i \in (lo + 1)..hi : log[i].server = s

\* UnRegister returns only when the key is gone from etcd or its deletion failed: no
\* other lease or process of the server puts it back before main exits.
UnregisterDeletes == \A s \in Servers : stopper[s] = "done" => ~Stored(s) \/ s \in undeleted

\* "UnRegister delete registered service from etcd" (register.go:52): its caller takes
\* the return for that.  It does not hold: the error of Delete is dropped.
KeyGoneOnReturn == \A s \in Servers : stopper[s] = "done" => ~Stored(s)

\* A resolver that is up to date is wrong about a server only if no event of the
\* server came after Watch or if Get had loaded it: it then misses no server
\* that was put after Watch, and keeps no dead one it did not get from Get.
WrongOnlyByGet == CaughtUp => \A s \in Servers :
  /\ Stored(s) /\ Touched(s, from, Len(log)) => Published(s)
  /\ Published(s) /\ ~Stored(s) => <<"value", s>> \in published

\* The defect README.md:10 of grpc-lb lists as repaired, data that is not deleted on a
\* delete event of etcd: a server whose last event the resolver has handled was a
\* deletion is no longer published.  It does not hold of what Get has loaded.
DeletedUnpublished == CaughtUp => \A s \in Servers :
  Touched(s, from, Len(log)) /\ ~Stored(s) => ~Published(s)

\* A server that stops for good disappears from etcd, by UnRegister or by the
\* expiry of its lease, wherever in Register or UnRegister it stopped.
DeadVanish == \A s \in Servers :
  <>[](server[s] = "down") => <>[]~Stored(s)
=============================================================================
