---------------------------- MODULE Tables_proofs ----------------------------
(***************************************************************************)
(* Theorems about the three programs that fill a table from what others    *)
(* tell them: EtcdDiscovery, whose resolver keeps the servers etcd has     *)
(* told it of, for any set of servers and any number of restarts;          *)
(* GeoCache, for all addresses, login files of any length, batches of any  *)
(* size, and any number of runs and of failed saves; and FileParts, whose  *)
(* readers send the words of any file cut at any limit to the one that     *)
(* counts them.  They share the two facts about natural numbers.           *)
(***************************************************************************)
EXTENDS EtcdDiscovery, GeoCache, FileParts, FiniteSetTheorems, WellFoundedInduction, TLAPS

\* A set of natural numbers has a least member ...
LEMMA Least == ASSUME NEW T, T \subseteq Nat, T # {} PROVE \E k \in T : \A j \in T : k <= j
<1>1. PICK k \in T : \A j \in T : ~(<<j, k>> \in OpToRel(<, Nat))
  BY NatLessThanWellFounded, WFMin
<1>2. ASSUME NEW j \in T PROVE k <= j
  <2> SUFFICES ASSUME j < k PROVE FALSE
    OBVIOUS
  <2>1. <<j, k>> \in OpToRel(<, Nat)
    BY DEF OpToRel
  <2>2. QED
    BY <1>1, <2>1
<1>3. QED
  BY <1>2

\* ... so that one holding 0 and the successors of its members holds all of them:
\* induction, with the set of the numbers that have a property.
LEMMA FromZero == ASSUME NEW T, 0 \in T, \A n \in Nat : n \in T => n + 1 \in T
                  PROVE  Nat \subseteq T
<1> SUFFICES ASSUME Nat \ T # {} PROVE FALSE
  OBVIOUS
<1>1. PICK k \in Nat \ T : \A j \in Nat \ T : k <= j
  <2>1. Nat \ T \subseteq Nat
    OBVIOUS
  <2>2. QED
    BY <2>1, Least
<1>2. k # 0 /\ k - 1 \in Nat
  OBVIOUS
<1>3. k - 1 \in T
  BY <1>1, <1>2
<1>4. (k - 1) + 1 \in T
  BY <1>2, <1>3
<1>5. QED
  BY <1>4
-----------------------------------------------------------------------------
\* What register.go changes.
RegisterType == /\ server \in [Servers -> ServerStates]
                /\ helper \in [Servers -> HelperStates]
                /\ stopper \in [Servers -> StopperStates]
                /\ undeleted \subseteq Servers
                /\ store \in [Servers -> {"absent", "older", "current"}]

\* Neither goroutine is there before KeepAlive; UnRegister has its reply only when the
\* helper has sent it; and from the deletion on, unless it failed, nobody puts the key
\* again, since the process that would is still serving and the leases of older ones
\* have no key.
Reserves(s) == server[s] # "serving" => helper[s] = "none" /\ stopper[s] = "none"
InStep(s) == stopper[s] = "done" => helper[s] = "done"
Deleted(s) == helper[s] \in {"reply", "done"} => store[s] = "absent" \/ s \in undeleted
Handshake(s) == Reserves(s) /\ InStep(s) /\ Deleted(s)
RegisterInv == RegisterType /\ \A s \in Servers : Handshake(s)

LEMMA InitRegister == Init => RegisterInv
BY DEF Init, RegisterInv, RegisterType, Handshake, Reserves, InStep, Deleted,
       ServerStates, HelperStates, StopperStates

LEMMA NextRegister == RegisterInv /\ [Next]_vars => RegisterInv'
<1> SUFFICES ASSUME RegisterInv, [Next]_vars PROVE RegisterInv'
  OBVIOUS
<1> USE DEF RegisterInv, RegisterType, Handshake, Reserves, InStep, Deleted,
            ServerStates, HelperStates, StopperStates, Step
<1>1. ASSUME NEW s \in Servers, Grant(s) PROVE RegisterInv'
  BY <1>1 DEF Grant
<1>2. ASSUME NEW s \in Servers, Put(s) PROVE RegisterInv'
  BY <1>2 DEF Put, UnderLease
<1>3. ASSUME NEW s \in Servers, KeepAlive(s) PROVE RegisterInv'
  BY <1>3 DEF KeepAlive, etcd
<1>4. ASSUME NEW s \in Servers, Signal(s) PROVE RegisterInv'
  BY <1>4 DEF Signal, etcd
<1>5. ASSUME NEW s \in Servers, Request(s) PROVE RegisterInv'
  BY <1>5 DEF Request, etcd
<1>6. ASSUME NEW s \in Servers, Delete(s) PROVE RegisterInv'
  BY <1>6 DEF Delete, Deletes, DeleteFails
<1>7. ASSUME NEW s \in Servers, Reply(s) PROVE RegisterInv'
  BY <1>7 DEF Reply, Replies, etcd
<1>8. ASSUME NEW s \in Servers, Gone(s) PROVE RegisterInv'
  BY <1>8 DEF Gone, etcd
<1>9. ASSUME NEW s \in Servers, Restart(s) PROVE RegisterInv'
  BY <1>9 DEF Restart
<1>10. ASSUME NEW s \in Servers, Expire(s) PROVE RegisterInv'
  BY <1>10 DEF Expire, process
<1>11. ASSUME NEW s \in Servers, ExpireOlder(s) PROVE RegisterInv'
  BY <1>11 DEF ExpireOlder, process
<1>12. ASSUME Follow PROVE RegisterInv'
  BY <1>12 DEF Follow, Get, Watch, WatchResponse, process, etcd
<1>13. CASE UNCHANGED vars
  BY <1>13 DEF vars, process, etcd
<1>14. QED
  BY <1>1, <1>2, <1>3, <1>4, <1>5, <1>6, <1>7, <1>8, <1>9, <1>10, <1>11, <1>12, <1>13
     DEF Next, Serve, Unregister, Exit, Crash

\* UnRegister returns only when the key is gone from etcd or its deletion failed, in
\* whatever order the two goroutines use their one channel, leases expire and servers
\* restart.
THEOREM DeletesBeforeReturn == Spec => []UnregisterDeletes
<1>1. RegisterInv => UnregisterDeletes
  BY DEF RegisterInv, Handshake, InStep, Deleted, UnregisterDeletes, Stored
<1>2. QED
  BY InitRegister, NextRegister, <1>1, PTL DEF Spec
-----------------------------------------------------------------------------
\* What ApplyAll computes: the entries after each of the events.
Entries(g, d, m) == g = [i \in 0..m |-> IF i = 0 THEN d ELSE Apply(g[i - 1], log[seen + i])]

LEMMA EntriesExist == ASSUME NEW d, NEW n \in Nat PROVE \E g : Entries(g, d, n)
<1> DEFINE T == {m \in Nat : \E g : Entries(g, d, m)}
<1>1. 0 \in T
  <2> DEFINE g == [i \in 0..0 |-> d]
  <2>1. Entries(g, d, 0)
    BY DEF Entries
  <2>2. QED
    BY <2>1
<1>2. ASSUME NEW m \in Nat, m \in T PROVE m + 1 \in T
  <2>1. PICK g : Entries(g, d, m)
    BY <1>2
  <2> DEFINE h == [i \in 0..(m + 1) |-> IF i = 0 THEN d ELSE Apply(g[i - 1], log[seen + i])]
  <2>2. \A i \in 0..m : h[i] = g[i]
    BY <2>1 DEF Entries
  <2>3. \A i \in 0..(m + 1) : i # 0 => h[i - 1] = g[i - 1]
    BY <2>2
  <2>4. h = [i \in 0..(m + 1) |-> IF i = 0 THEN d ELSE Apply(h[i - 1], log[seen + i])]
    BY <2>3
  <2>5. Entries(h, d, m + 1)
    BY <2>4 DEF Entries
  <2> HIDE DEF h
  <2>6. QED
    BY <2>5
<1> HIDE DEF T
<1>3. n \in T
  BY <1>1, <1>2, FromZero
<1>4. QED
  BY <1>3 DEF T

LEMMA ApplyAllUnfolds ==
  ASSUME NEW d, NEW n \in Nat
  PROVE  \E g : /\ g[0] = d /\ g[n] = ApplyAll(d, n)
                /\ \A i \in 0..(n - 1) : g[i + 1] = Apply(g[i], log[seen + (i + 1)])
<1> DEFINE g == CHOOSE g : g = [i \in 0..n |->
                  IF i = 0 THEN d ELSE Apply(g[i - 1], log[seen + i])]
<1>0. \E h : Entries(h, d, n)
  BY EntriesExist
<1>1. Entries(g, d, n)
  BY <1>0 DEF Entries
<1>2. g[n] = ApplyAll(d, n)
  BY DEF ApplyAll
<1> HIDE DEF g
<1>3. g[0] = d
  BY <1>1 DEF Entries
<1>4. \A i \in 0..(n - 1) : g[i + 1] = Apply(g[i], log[seen + (i + 1)])
  BY <1>1 DEF Entries
<1>5. QED
  BY <1>2, <1>3, <1>4

-----------------------------------------------------------------------------
\* The last of the events lo + 1 .. hi of l that is about s put its key.
LastPut(l, s, lo, hi) ==
  \E i \in (lo + 1)..hi : /\ l[i].server = s /\ l[i].type = "PUT"
                          /\ \A j \in (i + 1)..hi : l[j].server # s

LEMMA NoneYet == ASSUME NEW l, NEW s, NEW lo \in Nat PROVE ~LastPut(l, s, lo, lo)
BY DEF LastPut

LEMMA OneMore ==
  ASSUME NEW l, NEW s, NEW lo \in Nat, NEW hi \in Nat, lo <= hi
  PROVE  LastPut(l, s, lo, hi + 1) <=> IF l[hi + 1].server = s THEN l[hi + 1].type = "PUT"
                                                               ELSE LastPut(l, s, lo, hi)
<1>1. CASE l[hi + 1].server = s
  <2>1. LastPut(l, s, lo, hi + 1) => l[hi + 1].type = "PUT"
    BY <1>1 DEF LastPut
  <2>2. ASSUME l[hi + 1].type = "PUT" PROVE LastPut(l, s, lo, hi + 1)
    <3>1. hi + 1 \in (lo + 1)..(hi + 1) /\ ((hi + 1) + 1)..(hi + 1) = {}
      OBVIOUS
    <3>2. QED
      BY <1>1, <2>2, <3>1 DEF LastPut
  <2>3. QED
    BY <1>1, <2>1, <2>2
<1>2. CASE l[hi + 1].server # s
  <2>1. ASSUME LastPut(l, s, lo, hi) PROVE LastPut(l, s, lo, hi + 1)
    BY <1>2, <2>1 DEF LastPut
  <2>2. ASSUME LastPut(l, s, lo, hi + 1) PROVE LastPut(l, s, lo, hi)
    <3>1. PICK i \in (lo + 1)..(hi + 1) : /\ l[i].server = s /\ l[i].type = "PUT"
                                          /\ \A j \in (i + 1)..(hi + 1) : l[j].server # s
      BY <2>2 DEF LastPut
    <3>2. i \in (lo + 1)..hi
      BY <1>2, <3>1
    <3>3. QED
      BY <3>1, <3>2 DEF LastPut
  <2>3. QED
    BY <1>2, <2>1, <2>2
<1>3. QED
  BY <1>1, <1>2

LEMMA SameEvents ==
  ASSUME NEW l, NEW m, NEW s, NEW lo \in Nat, NEW hi \in Nat, \A i \in 1..hi : l[i] = m[i]
  PROVE  LastPut(l, s, lo, hi) <=> LastPut(m, s, lo, hi)
<1>1. \A i \in (lo + 1)..hi : l[i] = m[i] /\ \A j \in (i + 1)..hi : l[j] = m[j]
  OBVIOUS
<1>2. QED
  BY <1>1 DEF LastPut

\* One event more in etcd.
Events == [type : {"PUT", "DELETE"}, server : Servers]

LEMMA EventAppended ==
  ASSUME NEW l \in Seq(Events), NEW e \in Events, NEW m, m = Append(l, e)
  PROVE  /\ m \in Seq(Events) /\ Len(m) = Len(l) + 1 /\ \A k \in 1..Len(l) : m[k] = l[k]
         /\ \A s \in Servers, lo \in Nat, hi \in 0..Len(l) :
              LastPut(m, s, lo, hi) <=> LastPut(l, s, lo, hi)
         /\ \A s \in Servers : LastPut(m, s, 0, Len(m)) <=>
              IF e.server = s THEN e.type = "PUT" ELSE LastPut(l, s, 0, Len(l))
<1>1. /\ m \in Seq(Events) /\ Len(m) = Len(l) + 1 /\ Len(l) \in Nat
      /\ m[Len(l) + 1] = e /\ \A k \in 1..Len(l) : m[k] = l[k]
  OBVIOUS
<1>2. ASSUME NEW s \in Servers, NEW lo \in Nat, NEW hi \in 0..Len(l)
      PROVE  LastPut(m, s, lo, hi) <=> LastPut(l, s, lo, hi)
  <2>1. hi \in Nat /\ \A k \in 1..hi : m[k] = l[k]
    BY <1>1
  <2>2. QED
    BY <2>1, SameEvents
<1>3. ASSUME NEW s \in Servers
      PROVE  LastPut(m, s, 0, Len(m)) <=>
               IF e.server = s THEN e.type = "PUT" ELSE LastPut(l, s, 0, Len(l))
  <2>1. LastPut(m, s, 0, Len(l) + 1) <=>
          IF m[Len(l) + 1].server = s THEN m[Len(l) + 1].type = "PUT"
                                      ELSE LastPut(m, s, 0, Len(l))
    <3> DEFINE hi == Len(l)
    <3>1. hi \in Nat /\ 0 \in Nat /\ 0 <= hi
      BY <1>1
    <3> HIDE DEF hi
    <3>2. LastPut(m, s, 0, hi + 1) <=>
            IF m[hi + 1].server = s THEN m[hi + 1].type = "PUT" ELSE LastPut(m, s, 0, hi)
      BY <3>1, OneMore
    <3>3. QED
      BY <3>2 DEF hi
  <2>2. LastPut(m, s, 0, Len(l)) <=> LastPut(l, s, 0, Len(l))
    BY <1>1, <1>2
  <2>3. QED
    BY <1>1, <2>1, <2>2
<1>4. QED
  BY <1>1, <1>2, <1>3

\* What ApplyAll does to the entry of a server: the last of the events decides.
LEMMA LastDecides ==
  ASSUME NEW d, NEW n \in Nat, NEW s, from \in Nat, seen \in Nat, from <= seen,
         <<"key", s>> \in d <=> LastPut(log, s, from, seen)
  PROVE  <<"key", s>> \in ApplyAll(d, n) <=> LastPut(log, s, from, seen + n)
<1>1. PICK g : /\ g[0] = d /\ g[n] = ApplyAll(d, n)
               /\ \A i \in 0..(n - 1) : g[i + 1] = Apply(g[i], log[seen + (i + 1)])
  BY ApplyAllUnfolds
<1> DEFINE T == {m \in Nat :
                   m <= n => (<<"key", s>> \in g[m] <=> LastPut(log, s, from, seen + m))}
<1>2. 0 \in T
  BY <1>1
<1>3. ASSUME NEW m \in Nat, m \in T PROVE m + 1 \in T
  <2> SUFFICES ASSUME m + 1 <= n
               PROVE  <<"key", s>> \in g[m + 1] <=> LastPut(log, s, from, seen + (m + 1))
    OBVIOUS
  <2>1. g[m + 1] = Apply(g[m], log[seen + (m + 1)])
    BY <1>1
  <2>2. <<"key", s>> \in g[m] <=> LastPut(log, s, from, seen + m)
    BY <1>3
  <2>3. seen + (m + 1) = (seen + m) + 1 /\ from <= seen + m /\ seen + m \in Nat
    OBVIOUS
  <2>4. LastPut(log, s, from, seen + (m + 1)) <=>
          IF log[seen + (m + 1)].server = s THEN log[seen + (m + 1)].type = "PUT"
                                            ELSE LastPut(log, s, from, seen + m)
    BY <2>3, OneMore
  <2>5. <<"key", s>> \in g[m + 1] <=>
          IF log[seen + (m + 1)].server = s THEN log[seen + (m + 1)].type = "PUT"
                                            ELSE <<"key", s>> \in g[m]
    BY <2>1 DEF Apply
  <2>6. QED
    BY <2>2, <2>4, <2>5
<1> HIDE DEF T
<1>4. n \in T
  BY <1>2, <1>3, FromZero
<1>5. QED
  BY <1>1, <1>4 DEF T

\* The other entries stay, and only those of servers are added.
LEMMA OnlyKeys ==
  ASSUME NEW d, NEW n \in Nat, d \subseteq Kinds \X Servers,
         \A i \in 1..n : log[seen + i] \in Events
  PROVE  ApplyAll(d, n) \subseteq Kinds \X Servers
<1>1. PICK g : /\ g[0] = d /\ g[n] = ApplyAll(d, n)
               /\ \A i \in 0..(n - 1) : g[i + 1] = Apply(g[i], log[seen + (i + 1)])
  BY ApplyAllUnfolds
<1> DEFINE T == {m \in Nat : m <= n => g[m] \subseteq Kinds \X Servers}
<1>2. 0 \in T
  BY <1>1
<1>3. ASSUME NEW m \in Nat, m \in T PROVE m + 1 \in T
  <2> SUFFICES ASSUME m + 1 <= n PROVE g[m + 1] \subseteq Kinds \X Servers
    OBVIOUS
  <2>1. g[m + 1] = Apply(g[m], log[seen + (m + 1)]) /\ g[m] \subseteq Kinds \X Servers
    BY <1>1, <1>3
  <2>2. log[seen + (m + 1)].server \in Servers
    BY DEF Events
  <2>3. QED
    BY <2>1, <2>2 DEF Apply, Kinds
<1> HIDE DEF T
<1>4. n \in T
  BY <1>2, <1>3, FromZero
<1>5. QED
  BY <1>1, <1>4 DEF T
-----------------------------------------------------------------------------
LEMMA InitTypes == Init => TypeOK
<1> SUFFICES ASSUME Init PROVE TypeOK
  OBVIOUS
<1>1. /\ starts \in 0..MaxStarts
      /\ addrDict \subseteq Kinds \X Servers /\ published \subseteq Kinds \X Servers
  BY DiscoveryAssumption DEF Init
<1>2. log = << >> /\ log \in Seq([type : {"PUT", "DELETE"}, server : Servers]) /\ Len(log) = 0
  BY DEF Init
<1>3. from \in 0..Len(log) /\ seen \in from..Len(log)
  BY <1>2 DEF Init
<1>4. QED
  BY <1>1, <1>2, <1>3 DEF Init, TypeOK, ServerStates, HelperStates, StopperStates

LEMMA NextTypes == TypeOK /\ [Next]_vars => TypeOK'
<1> SUFFICES ASSUME TypeOK, [Next]_vars PROVE TypeOK'
  OBVIOUS
<1>0. /\ Len(log) \in Nat /\ from \in Nat /\ seen \in Nat
  BY DEF TypeOK
<1>a. ASSUME NEW e \in Events, log' = Append(log, e), UNCHANGED <<from, seen>>
      PROVE  /\ log' \in Seq([type : {"PUT", "DELETE"}, server : Servers])
             /\ from' \in 0..Len(log') /\ seen' \in from'..Len(log')
  <2>1. log \in Seq(Events)
    BY DEF TypeOK, Events
  <2>2. log' \in Seq(Events) /\ Len(log') = Len(log) + 1
    BY <1>a, <2>1, EventAppended
  <2>3. QED
    BY <1>0, <1>a, <2>2 DEF TypeOK, Events
<1>p. \A s \in Servers : [type |-> "PUT", server |-> s] \in Events
                         /\ [type |-> "DELETE", server |-> s] \in Events
  BY DEF Events
<1> USE DEF ServerStates, HelperStates, StopperStates, Step, process, etcd, client, Event
<1>1. ASSUME NEW s \in Servers, Grant(s) \/ KeepAlive(s) \/ Signal(s) PROVE TypeOK'
  BY <1>1 DEF Grant, KeepAlive, Signal, TypeOK
<1>2. ASSUME NEW s \in Servers, Put(s) PROVE TypeOK'
  <2>1. log' = Append(log, [type |-> "PUT", server |-> s]) /\ UNCHANGED client
    BY <1>2 DEF Put
  <2>2. QED
    BY <1>2, <1>a, <1>p, <2>1 DEF Put, UnderLease, TypeOK
<1>3. ASSUME NEW s \in Servers, Request(s) \/ Reply(s) PROVE TypeOK'
  BY <1>3 DEF Request, Reply, TypeOK
<1>4. ASSUME NEW s \in Servers, Delete(s) PROVE TypeOK'
  <2>1. CASE UNCHANGED <<store, log>>
    BY <1>4, <2>1 DEF Delete, Deletes, DeleteFails, TypeOK
  <2>2. CASE store' = [store EXCEPT ![s] = "absent"]
             /\ log' = Append(log, [type |-> "DELETE", server |-> s])
    BY <1>4, <2>2, <1>a, <1>p DEF Delete, Deletes, DeleteFails, TypeOK
  <2>3. QED
    BY <1>4, <2>1, <2>2 DEF Delete, Deletes, DeleteFails
<1>5. ASSUME NEW s \in Servers, Gone(s) PROVE TypeOK'
  BY <1>5 DEF Gone, TypeOK
<1>6. ASSUME NEW s \in Servers, Restart(s) PROVE TypeOK'
  BY <1>6, DiscoveryAssumption DEF Restart, TypeOK
<1>7. ASSUME NEW s \in Servers, Expire(s) PROVE TypeOK'
  <2>1. CASE UNCHANGED <<store, log>>
    BY <1>7, <2>1 DEF Expire, TypeOK
  <2>2. CASE store' = [store EXCEPT ![s] = "absent"]
             /\ log' = Append(log, [type |-> "DELETE", server |-> s])
    BY <1>7, <2>2, <1>a, <1>p DEF Expire, TypeOK
  <2>3. QED
    BY <1>7, <2>1, <2>2 DEF Expire
<1>8. ASSUME NEW s \in Servers, ExpireOlder(s) PROVE TypeOK'
  BY <1>8, <1>a, <1>p DEF ExpireOlder, TypeOK
<1>9. CASE Get
  <2>1. addrDict' \subseteq Kinds \X Servers
    BY <1>9 DEF Get, Kinds
  <2>2. QED
    BY <1>9, <2>1 DEF Get, TypeOK
<1>10. CASE Watch
  BY <1>10, <1>0 DEF Watch, WatchFrom, TypeOK
<1>11. CASE WatchResponse
  <2>1. PICK n \in 1..(Len(log) - seen) : addrDict' = ApplyAll(addrDict, n) /\ seen' = seen + n
    BY <1>11 DEF WatchResponse
  <2>2. n \in Nat /\ seen + n <= Len(log)
    BY <1>0
  <2>3. \A i \in 1..n : log[seen + i] \in Events
    <3>1. log \in Seq(Events)
      BY DEF TypeOK, Events
    <3>2. \A i \in 1..n : seen + i \in 1..Len(log)
      BY <1>0, <2>2
    <3>3. QED
      BY <3>1, <3>2
  <2>4. addrDict' \subseteq Kinds \X Servers
    BY <2>1, <2>2, <2>3, OnlyKeys DEF TypeOK
  <2>5. seen' \in from'..Len(log')
    BY <1>0, <1>11, <2>1, <2>2 DEF WatchResponse, TypeOK
  <2>6. QED
    BY <1>11, <2>4, <2>5 DEF WatchResponse, TypeOK
<1>12. CASE UNCHANGED vars
  BY <1>12 DEF vars, TypeOK
<1>13. QED
  BY <1>1, <1>2, <1>3, <1>4, <1>5, <1>6, <1>7, <1>8, <1>9, <1>10, <1>11, <1>12
     DEF Next, Serve, Unregister, Follow, Exit, Crash

\* The type invariant: the watch continues behind what Get has read, and never runs ahead
\* of the history of etcd (Watch, WatchResponse).
THEOREM DiscoveryTyped == Spec => []TypeOK
BY InitTypes, NextTypes, PTL DEF Spec

\* Why a resolver that is up to date is right: the store holds the keys whose last event
\* put them, and the entries under keys, of which Get and Watch leave none, are
\* those whose last event after Watch put them.
StoreIsLog == \A s \in Servers : Stored(s) <=> LastPut(log, s, 0, Len(log))
KeysAreSeen == \A s \in Servers :
  <<"key", s>> \in addrDict <=> resolver = "loop" /\ LastPut(log, s, from, seen)
WatchInv == /\ StoreIsLog /\ KeysAreSeen
            /\ resolver # "get" => published = addrDict

LEMMA InitWatch == Init => WatchInv
BY DEF Init, WatchInv, StoreIsLog, KeysAreSeen, Stored, LastPut

LEMMA NextWatch == TypeOK /\ WatchInv /\ [Next]_vars => WatchInv'
<1> SUFFICES ASSUME TypeOK, WatchInv, [Next]_vars PROVE WatchInv'
  OBVIOUS
<1>0. /\ log \in Seq(Events) /\ Len(log) \in Nat /\ from \in Nat /\ seen \in 0..Len(log)
      /\ seen \in Nat /\ from <= seen /\ store \in [Servers -> {"absent", "older", "current"}]
  BY DEF TypeOK, Events
<1>a. ASSUME NEW s \in Servers, NEW e \in Events, e.server = s,
             log' = Append(log, e), UNCHANGED client,
             \A t \in Servers \ {s} : store'[t] = store[t],
             store'[s] # "absent" <=> e.type = "PUT"
      PROVE  WatchInv'
  <2>1. /\ \A t \in Servers : LastPut(log', t, from, seen) <=> LastPut(log, t, from, seen)
        /\ \A t \in Servers : LastPut(log', t, 0, Len(log')) <=>
             IF s = t THEN e.type = "PUT" ELSE LastPut(log, t, 0, Len(log))
    <3>1. \A t \in Servers, lo \in Nat, hi \in 0..Len(log) :
            LastPut(log', t, lo, hi) <=> LastPut(log, t, lo, hi)
      BY <1>0, <1>a, EventAppended
    <3>2. \A t \in Servers : LastPut(log', t, 0, Len(log')) <=>
            IF e.server = t THEN e.type = "PUT" ELSE LastPut(log, t, 0, Len(log))
      BY <1>0, <1>a, EventAppended
    <3>3. QED
      BY <1>0, <1>a, <3>1, <3>2
  <2>2. StoreIsLog'
    BY <1>a, <2>1 DEF WatchInv, StoreIsLog, Stored
  <2>3. KeysAreSeen'
    BY <1>a, <2>1 DEF WatchInv, KeysAreSeen, client
  <2>4. QED
    BY <1>a, <2>2, <2>3 DEF WatchInv, client
<1>b. ASSUME UNCHANGED <<log, client>>, \A s \in Servers : Stored(s)' <=> Stored(s)
      PROVE  WatchInv'
  BY <1>b DEF WatchInv, StoreIsLog, KeysAreSeen, client
<1>p. \A s \in Servers : [type |-> "PUT", server |-> s] \in Events
                         /\ [type |-> "DELETE", server |-> s] \in Events
  BY DEF Events
<1> USE DEF Step, process, etcd, Event
<1>1. ASSUME NEW s \in Servers, Grant(s) \/ KeepAlive(s) \/ Signal(s) \/ Request(s)
                                \/ Reply(s) \/ Gone(s) PROVE WatchInv'
  BY <1>1, <1>b DEF Grant, KeepAlive, Signal, Request, Reply, Gone, Stored
<1>2. ASSUME NEW s \in Servers, Put(s) PROVE WatchInv'
  BY <1>2, <1>a, <1>p, <1>0 DEF Put, UnderLease
<1>3. ASSUME NEW s \in Servers, Delete(s) PROVE WatchInv'
  <2>1. CASE UNCHANGED <<store, log>>
    BY <1>3, <2>1, <1>b DEF Delete, Deletes, DeleteFails, Stored
  <2>2. CASE store' = [store EXCEPT ![s] = "absent"]
             /\ log' = Append(log, [type |-> "DELETE", server |-> s])
    BY <1>3, <2>2, <1>a, <1>p, <1>0 DEF Delete, Deletes, DeleteFails
  <2>3. QED
    BY <1>3, <2>1, <2>2 DEF Delete, Deletes, DeleteFails
<1>4. ASSUME NEW s \in Servers, Restart(s) PROVE WatchInv'
  BY <1>4, <1>b, <1>0 DEF Restart, Stored
<1>5. ASSUME NEW s \in Servers, Expire(s) PROVE WatchInv'
  <2>1. CASE UNCHANGED <<store, log>>
    BY <1>5, <2>1, <1>b DEF Expire, Stored
  <2>2. CASE store' = [store EXCEPT ![s] = "absent"]
             /\ log' = Append(log, [type |-> "DELETE", server |-> s])
    BY <1>5, <2>2, <1>a, <1>p, <1>0 DEF Expire
  <2>3. QED
    BY <1>5, <2>1, <2>2 DEF Expire
<1>6. ASSUME NEW s \in Servers, ExpireOlder(s) PROVE WatchInv'
  BY <1>6, <1>a, <1>p, <1>0 DEF ExpireOlder
<1>7. CASE Get
  <2>1. \A s \in Servers : <<"key", s>> \notin addrDict'
    BY <1>7 DEF Get
  <2>2. UNCHANGED <<store, log>> /\ resolver' = "watch" /\ published' = addrDict'
    BY <1>7 DEF Get
  <2>3. QED
    BY <2>1, <2>2 DEF WatchInv, StoreIsLog, KeysAreSeen, Stored
<1>8. CASE Watch
  <2>1. /\ UNCHANGED <<store, log, addrDict, published>> /\ resolver = "watch"
        /\ resolver' = "loop" /\ from' = Len(log) /\ seen' = Len(log)
    BY <1>8 DEF Watch, WatchFrom
  <2>2. \A s \in Servers : ~LastPut(log, s, Len(log), Len(log))
    BY <1>0, NoneYet
  <2>3. QED
    BY <2>1, <2>2 DEF WatchInv, StoreIsLog, KeysAreSeen, Stored
<1>9. CASE WatchResponse
  <2>1. PICK n \in 1..(Len(log) - seen) : addrDict' = ApplyAll(addrDict, n) /\ seen' = seen + n
    BY <1>9 DEF WatchResponse
  <2>2. /\ UNCHANGED <<store, log, from, resolver>> /\ resolver = "loop"
        /\ published' = addrDict' /\ n \in Nat
    BY <1>9, <1>0 DEF WatchResponse
  <2>3. ASSUME NEW s \in Servers
        PROVE  <<"key", s>> \in addrDict' <=> LastPut(log, s, from, seen')
    BY <1>0, <2>1, <2>2, LastDecides DEF WatchInv, KeysAreSeen
  <2>4. QED
    BY <2>2, <2>3 DEF WatchInv, StoreIsLog, KeysAreSeen, Stored
<1>10. CASE UNCHANGED vars
  BY <1>10, <1>b DEF vars, Stored
<1>11. QED
  BY <1>1, <1>2, <1>3, <1>4, <1>5, <1>6, <1>7, <1>8, <1>9, <1>10
     DEF Next, Serve, Unregister, Follow, Exit, Crash

\* A resolver that is up to date misses no server that was put after Watch, and keeps no
\* dead one it did not get from Get, whatever the number of events in one response.
THEOREM ResolverRight == Spec => []WrongOnlyByGet
<1>1. TypeOK /\ WatchInv => WrongOnlyByGet
  <2> SUFFICES ASSUME TypeOK, WatchInv, CaughtUp, NEW s \in Servers
               PROVE  /\ Stored(s) /\ Touched(s, from, Len(log)) => Published(s)
                      /\ Published(s) /\ ~Stored(s) => <<"value", s>> \in published
    BY DEF WrongOnlyByGet
  <2>1. <<"key", s>> \in published <=> LastPut(log, s, from, Len(log))
    BY DEF CaughtUp, WatchInv, KeysAreSeen
  <2>2. Stored(s) <=> LastPut(log, s, 0, Len(log))
    BY DEF WatchInv, StoreIsLog
  <2>3. from \in Nat /\ Len(log) \in Nat
    BY DEF TypeOK
  <2>4. Touched(s, from, Len(log)) /\ LastPut(log, s, 0, Len(log))
          => LastPut(log, s, from, Len(log))
    BY <2>3 DEF Touched, LastPut
  <2>5. LastPut(log, s, from, Len(log)) => LastPut(log, s, 0, Len(log))
    BY <2>3 DEF LastPut
  <2>6. QED
    BY <2>1, <2>2, <2>4, <2>5 DEF Published, Kinds
<1>2. QED
  BY InitTypes, NextTypes, InitWatch, NextWatch, <1>1, PTL DEF Spec
-----------------------------------------------------------------------------
USE GeoAssumption

\* Why SavedKept is inductive: a program that has read the file has everything in memory
\* that the file must keep, before run; it is down with nothing read; and when it is
\* down with a file that was cut off nothing is left to keep.
Remembered == "cache" \in read => safe \subseteq cache
Unsaved == {"down", "init", "main"}
Unread == state = "down" => read = {}
NothingLeft == state \in Unsaved /\ torn => safe = {}
SafeInv == torn \in BOOLEAN /\ SavedKept /\ Remembered /\ Unread /\ NothingLeft

LEMMA InitSafe == GeoInit => SafeInv
BY DEF GeoInit, SafeInv, SavedKept, Remembered, Unread, NothingLeft, Unsaved

LEMMA NextSafe == SafeInv /\ [GeoNext]_geoVars => SafeInv'
<1> SUFFICES ASSUME SafeInv, [GeoNext]_geoVars PROVE SafeInv'
  OBVIOUS
<1> USE DEF SafeInv, SavedKept, Remembered, Unread, NothingLeft, Unsaved, files
<1>1. CASE Start \/ LoadAgain
  BY <1>1 DEF Start, LoadAgain, loadFromCache, Loaded, bounds
<1>r. CASE readLines
  BY <1>r DEF readLines, bounds
<1>2. CASE buildRequestFails
  BY <1>2 DEF buildRequestFails, bounds
<1>3. CASE saveGEOToCache
  BY <1>3 DEF saveGEOToCache, bounds
<1>4. CASE Truncate
  BY <1>4 DEF Truncate, bounds
<1>5. CASE Write
  BY <1>5 DEF Write, bounds
<1>6. CASE saveCacheFails
  BY <1>6 DEF saveCacheFails, bounds
<1>7. CASE Finish
  BY <1>7 DEF Finish, bounds
<1>8. CASE Ended
  BY <1>8 DEF Ended, bounds
<1>9. CASE UNCHANGED geoVars
  BY <1>9 DEF geoVars
<1>10. QED
  BY <1>1, <1>r, <1>2, <1>3, <1>4, <1>5, <1>6, <1>7, <1>8, <1>9 DEF GeoNext

\* Saving never drops what an earlier save has completed, over any number of runs
\* with other login files (saveCache replaces the file as a whole), unless the program
\* could not read the file.
THEOREM Kept == GeoSpec => []SavedKept
<1>1. SafeInv => SavedKept
  BY DEF SafeInv
<1>2. QED
  BY InitSafe, NextSafe, <1>1, PTL DEF GeoSpec
-----------------------------------------------------------------------------
\* The number of batches behind the program, with the one whose answers it is saving.
Behind == batch + (IF state \in {"save", "write"} THEN 1 ELSE 0)

\* What is behind the program is in the cache, or unknown to the service.
AnswerTo(k) == lines[k] \in cache \union Reserved
BatchInv ==
  /\ batch \in Nat /\ (state \in Unsaved => batch = 0 /\ lines = << >>)
  /\ state = "finished" => batch >= loop(Len(lines))
  /\ \A k \in Nat \ {0} : k <= Len(lines) /\ k <= Behind * Batch => AnswerTo(k)

\* The next batch begins behind the last one.
LEMMA NextBatch == \A b \in Nat : /\ b * Batch \in Nat
                                  /\ (b + 1) * Batch = b * Batch + Batch
OBVIOUS

\* As many batches as loop says reach the last line.
LEMMA LastBatch == \A b, k \in Nat : b >= loop(k) => k <= b * Batch
BY DEF loop

LEMMA InitBatch == GeoInit => BatchInv
<1> SUFFICES ASSUME GeoInit PROVE BatchInv
  OBVIOUS
<1>1. Behind * Batch = 0
  BY DEF GeoInit, Behind
<1>2. QED
  BY <1>1 DEF GeoInit, BatchInv, Unsaved

LEMMA StepBatch == BatchInv /\ [GeoNext]_geoVars => BatchInv'
<1> SUFFICES ASSUME BatchInv, [GeoNext]_geoVars PROVE BatchInv'
  OBVIOUS
<1> USE DEF BatchInv, AnswerTo, Behind, Unsaved
<1>1. CASE Start \/ LoadAgain \/ readLines
  <2>1. Behind' * Batch = 0 /\ batch' = 0 /\ state' \in {"init", "main", "ask"}
    BY <1>1 DEF Start, LoadAgain, readLines
  <2>2. state' \in Unsaved => lines' = << >>
    BY <1>1 DEF Start, LoadAgain, readLines
  <2>3. QED
    BY <2>1, <2>2
<1>2. CASE buildRequestFails
  BY <1>2 DEF buildRequestFails, Again
<1>3. CASE saveGEOToCache
  \* The lines of the batch are those that were asked.
  <2>1. Behind' = batch + 1 /\ Behind = batch /\ lines' = lines /\ batch' = batch
    BY <1>3 DEF saveGEOToCache
  <2>2. cache' = cache \union (Asked \ Reserved)
    BY <1>3 DEF saveGEOToCache
  <2>3. ASSUME NEW k \in Nat \ {0}, k <= Len(lines), k <= (batch + 1) * Batch
        PROVE lines[k] \in cache' \union Reserved
    <3>1. CASE k <= batch * Batch
      BY <3>1, <2>1, <2>2, <2>3
    <3>2. CASE ~(k <= batch * Batch)
      <4>1. k \in (batch * Batch + 1)..End
        BY <3>2, <2>3, NextBatch DEF End
      <4>2. lines[k] \in Asked
        BY <4>1 DEF Asked
      <4>3. QED
        BY <4>2, <2>2
    <3>3. QED
      BY <3>1, <3>2
  <2>4. state' = "save"
    BY <1>3 DEF saveGEOToCache
  <2>5. QED
    BY <2>1, <2>3, <2>4
<1>4. CASE Truncate
  BY <1>4 DEF Truncate
<1>5. CASE Write
  BY <1>5 DEF Write
<1>6. CASE saveCacheFails
  BY <1>6 DEF saveCacheFails
<1>7. CASE Finish
  BY <1>7 DEF Finish
<1>8. CASE Ended
  <2>1. Behind' * Batch = 0 /\ batch' = 0 /\ state' = "down" /\ lines' = << >>
    BY <1>8 DEF Ended
  <2>2. QED
    BY <2>1
<1>9. CASE UNCHANGED geoVars
  BY <1>9 DEF geoVars
<1>10. QED
  BY <1>1, <1>2, <1>3, <1>4, <1>5, <1>6, <1>7, <1>8, <1>9 DEF GeoNext

\* A run that has finished has an answer for every line it had to look up.
LEMMA LinesAnswered ==
  ASSUME BatchInv, state = "finished", Len(lines) \in Nat, NEW k \in 1..Len(lines)
  PROVE  AnswerTo(k)
<1>1. Len(lines) <= batch * Batch /\ batch * Batch \in Nat /\ Behind = batch
  BY LastBatch, NextBatch DEF BatchInv, Behind
<1>2. k <= Behind * Batch
  BY <1>1
<1>3. QED
  BY <1>2 DEF BatchInv
-----------------------------------------------------------------------------
\* What getNoCacheIp computes: the lines it has chosen after each line of the file.
Chosen(g, known, m) ==
  g = [k \in 0..m |-> IF k = 0 THEN <<>> ELSE AddNew(known, g[k - 1], file[k])]

LEMMA ChosenExist == ASSUME NEW known, NEW n \in Nat PROVE \E g : Chosen(g, known, n)
<1> DEFINE T == {m \in Nat : \E g : Chosen(g, known, m)}
<1>1. 0 \in T
  <2> DEFINE g == [k \in 0..0 |-> << >>]
  <2>1. Chosen(g, known, 0)
    BY DEF Chosen
  <2>2. QED
    BY <2>1
<1>2. ASSUME NEW m \in Nat, m \in T PROVE m + 1 \in T
  <2>1. PICK g : Chosen(g, known, m)
    BY <1>2
  <2> DEFINE h == [k \in 0..(m + 1) |->
                     IF k = 0 THEN <<>> ELSE AddNew(known, g[k - 1], file[k])]
  <2>2. \A k \in 0..m : h[k] = g[k]
    BY <2>1 DEF Chosen
  <2>3. \A k \in 0..(m + 1) : k # 0 => h[k - 1] = g[k - 1]
    <3>1. \A k \in 0..(m + 1) : k # 0 => k - 1 \in 0..m
      OBVIOUS
    <3> HIDE DEF h
    <3>2. QED
      BY <2>2, <3>1
  <2>4. Chosen(h, known, m + 1)
    BY <2>3 DEF Chosen
  <2> HIDE DEF h
  <2>5. QED
    BY <2>4
<1> HIDE DEF T
<1>3. n \in T
  BY <1>1, <1>2, FromZero
<1>4. QED
  BY <1>3 DEF T

LEMMA getNoCacheIpUnfolds ==
  ASSUME NEW known, Len(file) \in Nat
  PROVE  \E g : /\ g[0] = << >> /\ g[Len(file)] = getNoCacheIp(known)
                /\ \A k \in 0..(Len(file) - 1) :
                     g[k + 1] = AddNew(known, g[k], file[k + 1])
<1> DEFINE g == CHOOSE g : g = [k \in 0..Len(file) |->
                  IF k = 0 THEN <<>> ELSE AddNew(known, g[k - 1], file[k])]
<1>0. \E h : Chosen(h, known, Len(file))
  BY ChosenExist
<1>1. Chosen(g, known, Len(file))
  BY <1>0 DEF Chosen
<1>2. g[Len(file)] = getNoCacheIp(known)
  BY DEF getNoCacheIp
<1> HIDE DEF g
<1>3. g[0] = << >>
  BY <1>1 DEF Chosen
<1>4. \A k \in 0..(Len(file) - 1) :
        g[k + 1] = AddNew(known, g[k], file[k + 1])
  BY <1>1 DEF Chosen
<1>5. QED
  BY <1>2, <1>3, <1>4

\* A line is known or chosen.
Has(chosen, ip) == \E j \in 1..Len(chosen) : chosen[j] = ip

LEMMA HasMore == ASSUME NEW chosen \in Seq(Ips), NEW last \in Ips
                 PROVE  /\ Append(chosen, last) \in Seq(Ips) /\ Has(Append(chosen, last), last)
                        /\ \A ip : Has(chosen, ip) => Has(Append(chosen, last), ip)
<1>1. Append(chosen, last) \in Seq(Ips)
  OBVIOUS
<1>2. Has(Append(chosen, last), last)
  <2>1. Len(chosen) + 1 \in 1..Len(Append(chosen, last))
        /\ Append(chosen, last)[Len(chosen) + 1] = last
    OBVIOUS
  <2>2. QED
    BY <2>1 DEF Has
<1>3. ASSUME NEW ip, Has(chosen, ip) PROVE Has(Append(chosen, last), ip)
  <2>1. PICK j \in 1..Len(chosen) : chosen[j] = ip
    BY <1>3 DEF Has
  <2>2. j \in 1..Len(Append(chosen, last)) /\ Append(chosen, last)[j] = ip
    BY <2>1
  <2>3. QED
    BY <2>2 DEF Has
<1>4. QED
  BY <1>1, <1>2, <1>3

LEMMA NoneForgotten ==
  ASSUME NEW known, file \in Seq(Ips)
  PROVE  /\ getNoCacheIp(known) \in Seq(Ips)
         /\ \A j \in 1..Len(file) : file[j] \in known \/ Has(getNoCacheIp(known), file[j])
<1>0. Len(file) \in Nat /\ \A k \in 1..Len(file) : file[k] \in Ips
  OBVIOUS
<1>1. PICK g : /\ g[0] = << >> /\ g[Len(file)] = getNoCacheIp(known)
               /\ \A k \in 0..(Len(file) - 1) :
                    g[k + 1] = AddNew(known, g[k], file[k + 1])
  BY <1>0, getNoCacheIpUnfolds
<1> DEFINE T == {m \in Nat : m <= Len(file) =>
                   /\ g[m] \in Seq(Ips)
                   /\ \A j \in 1..m : file[j] \in known \/ Has(g[m], file[j])}
<1>2. 0 \in T
  <2>1. g[0] \in Seq(Ips) /\ 1..0 = {}
    BY <1>1
  <2>2. QED
    BY <2>1
<1>3. ASSUME NEW m \in Nat, m \in T PROVE m + 1 \in T
  <2> SUFFICES ASSUME m + 1 <= Len(file)
               PROVE  /\ g[m + 1] \in Seq(Ips)
                      /\ \A j \in 1..(m + 1) : file[j] \in known \/ Has(g[m + 1], file[j])
    OBVIOUS
  <2>1. g[m] \in Seq(Ips) /\ \A j \in 1..m : file[j] \in known \/ Has(g[m], file[j])
    BY <1>0, <1>3
  <2>2. g[m + 1] = IF file[m + 1] \in known THEN g[m] ELSE Append(g[m], file[m + 1])
    BY <1>0, <1>1 DEF AddNew
  <2>3. file[m + 1] \in Ips
    BY <1>0
  <2>4. \A j \in 1..(m + 1) : j = m + 1 \/ j \in 1..m
    OBVIOUS
  <2>5. CASE file[m + 1] \in known
    BY <2>1, <2>2, <2>4, <2>5
  <2>6. CASE file[m + 1] \notin known
    BY <2>1, <2>2, <2>3, <2>4, <2>6, HasMore
  <2>7. QED
    BY <2>5, <2>6
<1> HIDE DEF T
<1>4. Len(file) \in T
  BY <1>0, <1>2, <1>3, FromZero
<1>5. QED
  BY <1>0, <1>1, <1>4 DEF T

\* While the program runs, each line of the file is in the cache or among those to look up;
\* and unless a save has failed, the file holds the cache between two batches, or
\* is the one that a run before had torn, and nothing is in the cache.
Covered == state \notin Unsaved /\ "logins" \in read =>
             \A k \in 1..Len(file) : file[k] \in cache \/ Has(lines, file[k])
Filed == faults = 0 /\ state \in {"init", "main", "ask", "finished"} =>
           IF torn THEN cache = {} ELSE cache \subseteq disk
Fresh == /\ state = "down" => cache = {}
         /\ state \in Unsaved => "logins" \notin read
FileInv == /\ file \in Seq(Ips) /\ lines \in Seq(Ips) /\ faults \in Nat /\ torn \in BOOLEAN
           /\ Covered /\ Filed /\ Fresh

LEMMA LoginFileIsSeq == ASSUME NEW f \in LoginFiles PROVE f \in Seq(Ips)
<1>1. PICK k \in 0..MaxLines : f \in [1..k -> Ips]
  BY DEF LoginFiles
<1>2. QED
  BY <1>1

LEMMA InitFile == GeoInit => FileInv
<1> SUFFICES ASSUME GeoInit PROVE FileInv
  OBVIOUS
<1>1. file \in Seq(Ips) /\ lines \in Seq(Ips)
  BY LoginFileIsSeq DEF GeoInit
<1>2. QED
  BY <1>1 DEF GeoInit, FileInv, Covered, Filed, Fresh, Unsaved

LEMMA NextFile == FileInv /\ [GeoNext]_geoVars => FileInv'
<1> SUFFICES ASSUME FileInv, [GeoNext]_geoVars PROVE FileInv'
  OBVIOUS
<1> USE DEF FileInv, files, bounds
<1>1. CASE Start \/ LoadAgain
  BY <1>1 DEF Start, LoadAgain, loadFromCache, Loaded, Covered, Filed, Fresh, Unsaved
<1>r. CASE readLines
  <2>1. CASE lines' = getNoCacheIp(cache)
    <3>1. lines' \in Seq(Ips) /\ Covered'
      BY <1>r, <2>1, NoneForgotten DEF readLines, Covered, Unsaved
    <3>2. QED
      BY <1>r, <3>1 DEF readLines, Filed, Fresh, Unsaved
  <2>2. CASE lines' = << >> /\ UNCHANGED read
    BY <1>r, <2>2 DEF readLines, Covered, Filed, Fresh, Unsaved
  <2>3. QED
    BY <1>r, <2>1, <2>2 DEF readLines
<1>2. CASE buildRequestFails
  BY <1>2 DEF buildRequestFails, Covered, Filed, Fresh, Unsaved
<1>3. CASE saveGEOToCache
  BY <1>3 DEF saveGEOToCache, Covered, Filed, Fresh, Unsaved
<1>4. CASE Truncate
  BY <1>4 DEF Truncate, Covered, Filed, Fresh, Unsaved
<1>5. CASE Write
  BY <1>5 DEF Write, Covered, Filed, Fresh, Unsaved
<1>6. CASE saveCacheFails
  <2>1. faults' \in Nat /\ faults' # 0
    BY <1>6 DEF saveCacheFails
  <2>2. QED
    BY <1>6, <2>1 DEF saveCacheFails, Covered, Filed, Fresh, Unsaved
<1>7. CASE Finish
  BY <1>7 DEF Finish, Covered, Filed, Fresh, Unsaved
<1>8. CASE Ended
  BY <1>8, LoginFileIsSeq DEF Ended, Covered, Filed, Fresh, Unsaved
<1>9. CASE UNCHANGED geoVars
  BY <1>9 DEF geoVars, Covered, Filed, Fresh, Unsaved
<1>10. QED
  BY <1>1, <1>r, <1>2, <1>3, <1>4, <1>5, <1>6, <1>7, <1>8, <1>9 DEF GeoNext

\* A run that has finished has every address of the login file that the service knows in
\* the cache, and in the cache file unless a save has failed, whatever the size of the
\* batches, of which the last may be short, and however often requests have failed and
\* were repeated (getNoCacheIp, run, saveCache).
THEOREM FinishedComplete == GeoSpec => []RunComplete
<1>1. FileInv /\ BatchInv => RunComplete
  <2> SUFFICES ASSUME FileInv, BatchInv, state = "finished", NEW k \in DOMAIN file,
                      "logins" \in read, file[k] \notin Reserved
               PROVE  file[k] \in cache /\ (faults = 0 => ~torn /\ file[k] \in disk)
    BY DEF RunComplete
  <2>1. k \in 1..Len(file) /\ Len(lines) \in Nat
    BY DEF FileInv
  <2>2. file[k] \in cache
    <3>1. CASE Has(lines, file[k])
      <4>1. PICK j \in 1..Len(lines) : lines[j] = file[k]
        BY <3>1 DEF Has
      <4>2. AnswerTo(j)
        BY <2>1, LinesAnswered
      <4>3. QED
        BY <4>1, <4>2 DEF AnswerTo
    <3>2. QED
      BY <2>1, <3>1 DEF FileInv, Covered, Unsaved
  <2>3. faults = 0 => ~torn /\ file[k] \in disk
    BY <2>2 DEF FileInv, Filed
  <2>4. QED
    BY <2>2, <2>3
<1>2. QED
  BY InitBatch, StepBatch, InitFile, NextFile, <1>1, PTL DEF GeoSpec
-----------------------------------------------------------------------------
(* FileParts: how the texts are cut.                                       *)
USE PartsAssumption

ReaderStates == {"new", "ready", "open", "reading", "sending", "leaving", "done"}
MainStates == {"spawn", "advance", "wait", "drain", "returned", "panic"}

PartsType == /\ size \in 0..MaxSize /\ spaces \in SUBSET (0..(size - 1))
             /\ main \in MainStates
             /\ spawned \in 0..2 /\ current \in Nat /\ wg \in Nat
             /\ closed \in BOOLEAN
             /\ reader \in [Threads -> [state : ReaderStates, offset : Nat,
                                        pos : 0..MaxSize, cummulativeSize : Nat]]
             /\ got \in 0..None /\ counter \in {"ranging", "done"}
             /\ dict \in [0..MaxSize -> Nat]

Text == size \in 0..MaxSize /\ spaces \in SUBSET (0..(size - 1))

\* The space after a position is the least one there.
LEMMA SpaceAfter ==
  ASSUME Text, NEW pos \in Nat
  PROVE  \/ NextSpace(pos) = None /\ \A p \in spaces : p < pos
         \/ /\ NextSpace(pos) \in spaces /\ NextSpace(pos) # None /\ NextSpace(pos) >= pos
            /\ NextSpace(pos) \in Nat /\ NextSpace(pos) + 1 \in 0..MaxSize
            /\ \A q \in spaces : q >= pos => NextSpace(pos) <= q
<1> USE DEF Text, None
<1>0. \A p \in spaces : p \in Nat /\ p + 1 \in 0..MaxSize
  OBVIOUS
<1>1. CASE \A p \in spaces : p < pos
  BY <1>1 DEF NextSpace
<1>2. CASE ~\A p \in spaces : p < pos
  <2> DEFINE T == {p \in spaces : p >= pos}
  <2>1. T \subseteq Nat /\ T # {}
    <3>1. PICK p \in spaces : ~(p < pos)
      BY <1>2
    <3>2. p \in T
      BY <1>0, <3>1
    <3>3. QED
      BY <1>0, <3>2
  <2>2. \E k \in T : \A j \in T : k <= j
    BY <2>1, Least
  <2>3. \E p \in spaces : p >= pos /\ \A q \in spaces : q >= pos => p <= q
    BY <2>2
  <2>4. NextSpace(pos) = CHOOSE p \in spaces : p >= pos /\ \A q \in spaces : q >= pos => p <= q
    BY <1>2 DEF NextSpace
  <2>5. /\ NextSpace(pos) \in spaces /\ NextSpace(pos) >= pos
        /\ \A q \in spaces : q >= pos => NextSpace(pos) <= q
    BY <2>3, <2>4
  <2>6. NextSpace(pos) \in Nat /\ NextSpace(pos) + 1 \in 0..MaxSize
    BY <1>0, <2>5
  <2>7. QED
    BY <2>5, <2>6
<1>3. QED
  BY <1>1, <1>2

LEMMA StartType == Text => Starts \subseteq 0..MaxSize /\ Words \subseteq Starts
BY DEF Text, Starts, Words

\* A part is the words that begin in the Limit + 1 bytes from where its reader does.
LEMMA PartIs ==
  ASSUME Text, NEW offset \in Nat
  PROVE  /\ First(offset) = None => Part(offset) = {}
         /\ First(offset) # None =>
              /\ First(offset) \in Starts /\ First(offset) \in Nat
              /\ Part(offset) = {p \in Words : p \in First(offset)..(First(offset) + Limit)}
         /\ First(0) = 0
<1>0. \A p \in spaces : p \in Nat
  BY DEF Text
<1>1. First(0) = 0 /\ 0 \in Starts /\ 0 # None /\ 0 \in Nat
  BY DEF First, Starts, None
<1>2. CASE offset = 0
  <2>1. CASE spaces = {}
    <3>1. Words = {}
      BY <2>1 DEF Words, NextSpace
    <3>2. QED
      BY <1>1, <1>2, <3>1 DEF Part
  <2>2. CASE spaces # {}
    <3>1. ~\A p \in spaces : p < offset
      BY <1>0, <1>2, <2>2
    <3>2. QED
      BY <1>1, <1>2, <3>1 DEF Part
  <2>3. QED
    BY <2>1, <2>2
<1>3. CASE offset # 0 /\ \A p \in spaces : p < offset
  <2>1. First(offset) = None
    BY <1>3 DEF First, NextSpace
  <2>2. QED
    BY <1>1, <1>3, <2>1 DEF Part
<1>4. CASE offset # 0 /\ ~\A p \in spaces : p < offset
  <2> DEFINE m == NextSpace(offset)
  <2>1. /\ m \in spaces /\ m # None /\ m >= offset
        /\ \A q \in spaces : q >= offset => m <= q
        /\ m + 1 \in 0..MaxSize
    BY <1>4, SpaceAfter
  <2>2. First(offset) = m + 1 /\ m + 1 # None /\ m + 1 \in Starts /\ m + 1 \in Nat
    BY <1>4, <2>1 DEF First, Starts, None
  <2> DEFINE S == {p + 1 : p \in {q \in spaces : q >= offset}}
  <2>3. m + 1 \in S /\ \A y \in S : m + 1 <= y
    BY <1>0, <2>1
  <2>4. \A x \in S : (\A y \in S : x <= y) => x = m + 1
    <3> SUFFICES ASSUME NEW x \in S, \A y \in S : x <= y PROVE x = m + 1
      OBVIOUS
    <3>1. x \in Nat /\ m + 1 \in Nat
      BY <1>0, <2>1
    <3>2. x <= m + 1 /\ m + 1 <= x
      BY <2>3
    <3>3. QED
      BY <3>1, <3>2
  <2>5. Min(S) = m + 1
    BY <2>3, <2>4 DEF Min
  <2>6. Part(offset) = {p \in Words : p \in (m + 1)..(m + 1 + Limit)}
    BY <1>4, <2>5 DEF Part
  <2>7. QED
    BY <1>1, <2>2, <2>6
<1>5. QED
  BY <1>2, <1>3, <1>4

\* No word begins at a space, and none between the one at pos and the space after it.
LEMMA NoWords ==
  ASSUME Text, NEW pos \in 0..MaxSize
  PROVE  /\ NextSpace(pos) = None => \A p \in Words : p < pos
         /\ NextSpace(pos) = pos => pos \notin Words
         /\ NextSpace(pos) # None => \A p \in Words : p > pos => p > NextSpace(pos)
<1>0. Words \subseteq Nat /\ pos \in Nat
  BY StartType
<1>1. ASSUME NextSpace(pos) = None, NEW p \in Words, p >= pos PROVE FALSE
  <2>1. NextSpace(p) \in spaces /\ NextSpace(p) >= p /\ NextSpace(p) \in Nat
    BY <1>0, SpaceAfter DEF Words
  <2>2. \A q \in spaces : q < pos
    BY <1>0, <1>1, SpaceAfter
  <2>3. QED
    BY <1>0, <1>1, <2>1, <2>2
<1>2. ASSUME NextSpace(pos) # None, NEW p \in Words, p > pos PROVE p > NextSpace(pos)
  <2>1. p - 1 \in spaces /\ p - 1 >= pos
    BY <1>0, <1>2 DEF Words, Starts, Text
  <2>2. NextSpace(pos) <= p - 1 /\ NextSpace(pos) \in Nat
    BY <1>0, <1>2, <2>1, SpaceAfter
  <2>3. QED
    BY <1>0, <2>2
<1>3. QED
  BY <1>0, <1>1, <1>2 DEF Words

\* What is in the text does not change.
LEMMA SameText ==
  ASSUME UNCHANGED input
  PROVE  /\ Words' = Words /\ Starts' = Starts /\ Text' = Text
         /\ \A p : NextSpace(p)' = NextSpace(p) /\ First(p)' = First(p) /\ Part(p)' = Part(p)
BY DEF input, Words, Starts, Text, NextSpace, First, Part, None
-----------------------------------------------------------------------------
\* The words a reader r has handed over, and that it is where it should be: what it
\* has read since its part began, with the word it is about to send, is counted.
Taken(r) == IF r.state \in {"reading", "sending"} THEN {p \in Part(r.offset) : p < r.pos}
            ELSE IF r.state \in {"leaving", "done"} THEN Part(r.offset) ELSE {}

InPart(r) ==
  /\ r.state \in {"new", "ready", "open"} => r.cummulativeSize = 0
  /\ r.state \in {"reading", "sending"} =>
       First(r.offset) # None /\ r.pos \in Starts /\ r.pos >= First(r.offset)
  /\ r.state = "reading" => r.cummulativeSize = r.pos - First(r.offset)
  /\ r.state = "sending" => /\ r.pos \in Words /\ r.pos <= First(r.offset) + Limit
                            /\ r.cummulativeSize = NextSpace(r.pos) + 1 - First(r.offset)

\* A word was counted, or is about to be, by each reader that has handed it over.
Once(b) == IF b THEN 1 ELSE 0
Tally(p) == dict[p] + Once(got = p) = Once(p \in Taken(reader[1])) + Once(p \in Taken(reader[2]))

\* The wait group counts the goroutines that main has started and that have not left.
Active(r) == Once(r.state \notin {"new", "done"})
Started == spawned + Once(main = "advance")
Joining == /\ wg = Active(reader[1]) + Active(reader[2])
           /\ \A t \in Threads : reader[t].state = "new" <=> t > Started
           /\ main \in {"spawn", "advance"} => spawned < 2
           /\ main \in {"wait", "drain", "returned"} => spawned = 2
           /\ closed <=> main \in {"drain", "returned"}
           /\ closed => \A t \in Threads : reader[t].state = "done"
           /\ counter = "done" => closed /\ got = None
           /\ main = "returned" => counter = "done"

PartsInv == /\ PartsType
            /\ \A t \in Threads : InPart(reader[t])
            /\ got = None \/ got \in Words
            /\ \A p \in Words : Tally(p)
            /\ main # "panic" => Joining

LEMMA InitParts == PartsInit => PartsInv
<1> SUFFICES ASSUME PartsInit PROVE PartsInv
  OBVIOUS
<1> USE DEF PartsInit
<1>1. PartsType
  <2>1. Idle \in [state : ReaderStates, offset : Nat, pos : 0..MaxSize,
                 cummulativeSize : Nat]
    BY DEF Idle, ReaderStates
  <2>2. got \in 0..None
    BY DEF None
  <2>3. main \in MainStates /\ spawned \in 0..2
    BY DEF MainStates
  <2>4. QED
    BY <2>1, <2>2, <2>3 DEF PartsType
<1>2. \A t \in Threads : reader[t].state = "new"
  BY DEF Idle
<1>3. \A t \in Threads : InPart(reader[t]) /\ Taken(reader[t]) = {}
  BY <1>2 DEF InPart, Taken, Idle
<1>4. \A p \in Words : p \in 0..MaxSize /\ p # None
  BY <1>1, StartType DEF PartsType, Text, None
<1>5. \A p \in Words : Tally(p)
  BY <1>3, <1>4 DEF Tally, Once, Threads
<1>6. Joining
  BY <1>2 DEF Joining, Started, Active, Once, Threads
<1>7. QED
  BY <1>1, <1>3, <1>5, <1>6 DEF PartsInv

\* What a reader that does nothing has handed over does not change.
LEMMA Resting ==
  ASSUME UNCHANGED spaces, NEW t \in Threads, reader'[t] = reader[t]
  PROVE  /\ InPart(reader[t])' <=> InPart(reader[t])
         /\ Taken(reader[t])' = Taken(reader[t])
<1>1. InPart(reader[t])' <=> InPart(reader[t])
  BY DEF InPart, Words, Starts, First, NextSpace, None
<1>2. Taken(reader[t])' = Taken(reader[t])
  BY DEF Taken, Words, Starts, First, NextSpace, Part, None
<1>3. QED
  BY <1>1, <1>2

LEMMA Reading ==
  ASSUME NEW r, NEW first, r.state = "reading", First(r.offset) = first, first # None,
         r.pos \in Starts, r.pos >= first, r.cummulativeSize = r.pos - first
  PROVE  InPart(r)
BY DEF InPart

\* A reader goes on.
LEMMA Moving ==
  ASSUME PartsInv, Runs, NEW t \in Threads,
         NEW r \in [state : ReaderStates, offset : Nat, pos : 0..MaxSize,
                    cummulativeSize : Nat],
         Move(t, r), UNCHANGED <<input, mains, closed, counter, dict>>,
         reader[t].state \notin {"new", "done"}, r.state # "new", InPart(r),
         wg' = wg - Active(reader[t]) + Active(r),
         got' \in Words \/ got' = None,
         \A p \in Words : Once(got' = p) - Once(got = p)
                            = Once(p \in Taken(r)) - Once(p \in Taken(reader[t]))
  PROVE  PartsInv'
<1> USE DEF PartsInv, Move
<1>0. main \notin {"panic", "returned"} /\ Joining
  BY DEF Runs
<1>1. /\ reader' = [reader EXCEPT ![t] = r] /\ reader'[t] = r
      /\ \A u \in Threads : u # t => reader'[u] = reader[u]
      /\ UNCHANGED <<main, spawned, current, closed, counter, dict, size, spaces>>
  BY DEF PartsType, input, mains
<1>2. Words' = Words /\ Text
  BY SameText DEF PartsType, Text
<1>3. PartsType'
  <2>0. wg' = Active(reader'[1]) + Active(reader'[2])
    BY <1>0, <1>1 DEF Joining, Active, Once, Threads
  <2>1. wg' \in Nat
    BY <2>0 DEF Active, Once
  <2>2. got' \in 0..None
    BY <1>2, StartType DEF None
  <2>3. QED
    BY <1>1, <2>1, <2>2 DEF PartsType, None
<1>4. \A u \in Threads : InPart(reader[u])'
  BY <1>1, SameText DEF InPart, None
<1>5. \A u \in Threads : Taken(reader[u])' = Taken(reader'[u])
  <2> SUFFICES ASSUME NEW u \in Threads PROVE Taken(reader[u])' = Taken(reader'[u])
    OBVIOUS
  <2>1. UNCHANGED spaces
    BY DEF input
  <2>2. QED
    BY <2>1 DEF Taken, Words, Starts, NextSpace, Part, None
<1>6. \A p \in Words : Tally(p)'
  <2> SUFFICES ASSUME NEW p \in Words PROVE Tally(p)'
    OBVIOUS
  <2>1. Tally(p) /\ dict[p] \in Nat
    BY <1>2, StartType DEF PartsType
  <2>2. CASE t = 1
    <3>1. reader'[1] = r /\ reader'[2] = reader[2]
      BY <1>1, <2>2 DEF Threads
    <3>2. QED
      BY <1>1, <1>5, <2>1, <2>2, <3>1 DEF Tally, Once, Threads
  <2>3. CASE t = 2
    <3>1. reader'[2] = r /\ reader'[1] = reader[1]
      BY <1>1, <2>3 DEF Threads
    <3>2. QED
      BY <1>1, <1>5, <2>1, <2>3, <3>1 DEF Tally, Once, Threads
  <2>4. QED
    BY <2>2, <2>3 DEF Threads
<1>7. Joining'
  <2>1. wg' = Active(reader'[1]) + Active(reader'[2])
    BY <1>0, <1>1 DEF Joining, Active, Once, Threads
  <2>2. \A u \in Threads : reader'[u].state = "new" <=> reader[u].state = "new"
    BY <1>1
  <2>3. ~closed /\ counter # "done"
    BY <1>0 DEF Joining
  <2>4. QED
    BY <1>0, <1>1, <2>1, <2>2, <2>3 DEF Joining, Started, Active
<1>8. QED
  BY <1>2, <1>3, <1>4, <1>6, <1>7

\* What a reader has handed over when it goes on.
LEMMA Reads ==
  ASSUME PartsInv, NEW t \in Threads,
         Begin(t) \/ Open(t) \/ Stop(t) \/ ReadWord(t) \/ Receive(t) \/ Leave(t)
  PROVE  PartsInv'
<1> DEFINE r == reader[t]
           RT == [state : ReaderStates, offset : Nat, pos : 0..MaxSize, cummulativeSize : Nat]
<1> USE DEF PartsInv, In, Stays, ReaderStates
<1>0. /\ Text /\ r \in RT /\ InPart(r) /\ current \in Nat
      /\ r.offset \in Nat /\ r.pos \in 0..MaxSize /\ r.pos \in Nat /\ r.cummulativeSize \in Nat
      /\ got \in Words \/ got = None
  BY DEF PartsType, Text
<1>1. /\ Words \subseteq 0..MaxSize /\ Starts \subseteq 0..MaxSize /\ Limit \in Nat
      /\ wg \in Nat
  BY <1>0, StartType DEF PartsType
<1>2. First(r.offset) # None =>
        /\ First(r.offset) \in Starts /\ First(r.offset) \in Nat
        /\ Part(r.offset) = {p \in Words : p \in First(r.offset)..(First(r.offset) + Limit)}
  BY <1>0, PartIs
<1>3. ASSUME Runs, NEW s \in RT, Move(t, s), Stays, InPart(s), s.state \notin {"new", "done"},
             r.state \notin {"new", "done"},
             \A p \in Words : p \in Taken(s) <=> p \in Taken(r)
      PROVE  PartsInv'
  <2>1. UNCHANGED <<input, mains, closed, counter, dict, got, wg>>
    BY <1>3 DEF counts
  <2>2. wg' = wg - Active(r) + Active(s)
    BY <1>1, <1>3, <2>1 DEF Active, Once
  <2>3. QED
    BY <1>0, <1>3, <2>1, <2>2, Moving DEF Once
<1>4. CASE Begin(t)
  <2> DEFINE s == [r EXCEPT !.state = "open", !.offset = current]
  <2>1. s \in RT /\ s.state = "open"
    BY <1>0
  <2>2. Taken(s) = {} /\ Taken(r) = {} /\ InPart(s)
    BY <1>4, <2>1 DEF Begin, Taken, InPart
  <2>3. QED
    BY <1>3, <1>4, <2>1, <2>2 DEF Begin
<1>5. CASE Open(t) /\ First(r.offset) = None
  <2> DEFINE s == [r EXCEPT !.state = "leaving"]
  <2>1. s \in RT /\ s.state = "leaving" /\ s.offset = r.offset
    BY <1>0
  <2>2. Taken(s) = {} /\ Taken(r) = {} /\ InPart(s)
    BY <1>0, <1>5, <2>1, PartIs DEF Open, Taken, InPart
  <2>3. QED
    BY <1>3, <1>5, <2>1, <2>2 DEF Open
<1>6. CASE Open(t) /\ First(r.offset) # None
  <2> DEFINE s == [r EXCEPT !.state = "reading", !.pos = First(r.offset)]
  <2>1. s \in RT /\ s.state = "reading" /\ s.offset = r.offset /\ s.pos = First(r.offset)
    BY <1>0, <1>1, <1>2, <1>6
  <2>2. Taken(s) = {} /\ Taken(r) = {}
    BY <1>1, <1>2, <1>6, <2>1 DEF Open, Taken
  <2>3. InPart(s)
    <3>1. r.cummulativeSize = 0 /\ s.cummulativeSize = r.cummulativeSize
      BY <1>0, <1>6 DEF InPart, Open
    <3> HIDE DEF s, r
    <3>2. QED
      BY <1>2, <1>6, <2>1, <3>1 DEF InPart
  <2>4. QED
    BY <1>3, <1>6, <2>1, <2>2, <2>3 DEF Open
<1>7. CASE Stop(t)
  <2> DEFINE s == [r EXCEPT !.state = "leaving"]
  <2>1. s \in RT /\ s.state = "leaving" /\ s.offset = r.offset
    BY <1>0
  <2>2. Taken(s) = Part(r.offset) /\ Taken(r) = {p \in Part(r.offset) : p < r.pos} /\ InPart(s)
    BY <1>7, <2>1 DEF Stop, Taken, InPart
  <2>3. \A p \in Part(r.offset) : p < r.pos
    <3>1. First(r.offset) # None /\ r.cummulativeSize = r.pos - First(r.offset)
      BY <1>0, <1>7 DEF Stop, InPart
    <3>2. CASE r.cummulativeSize > Limit
      BY <1>0, <1>1, <1>2, <3>1, <3>2
    <3>3. CASE NextSpace(r.pos) = None
      BY <1>0, <1>2, <3>1, <3>3, NoWords
    <3>4. QED
      BY <1>7, <3>2, <3>3 DEF Stop
  <2>4. QED
    BY <1>3, <1>7, <2>1, <2>2, <2>3 DEF Stop
<1>8. CASE ReadWord(t)
  <2> DEFINE space == NextSpace(r.pos)
  <2>1. /\ Runs /\ r.state = "reading" /\ r.cummulativeSize <= Limit /\ space # None
        /\ First(r.offset) # None /\ r.pos \in Starts /\ r.pos >= First(r.offset)
        /\ r.cummulativeSize = r.pos - First(r.offset)
    BY <1>0, <1>8 DEF ReadWord, InPart
  <2>2. space \in spaces /\ space \in Nat /\ space >= r.pos /\ space + 1 \in 0..MaxSize
    BY <1>0, <2>1, SpaceAfter
  <2>3. CASE space > r.pos
    <3> DEFINE s == [r EXCEPT !.state = "sending",
                              !.cummulativeSize = @ + space + 1 - r.pos]
    <3>1. /\ s \in RT /\ s.state = "sending" /\ s.offset = r.offset /\ s.pos = r.pos
          /\ s.cummulativeSize = r.cummulativeSize + space + 1 - r.pos
      <4>1. r.cummulativeSize + space + 1 - r.pos \in Nat
        BY <1>0, <2>2, <2>3
      <4> HIDE DEF r, space
      <4>2. QED
        BY <1>0, <4>1
    <3>2. Taken(s) = Taken(r)
      BY <2>1, <3>1 DEF Taken
    <3>3. r.pos \in Words /\ r.pos <= First(r.offset) + Limit
      BY <1>0, <1>1, <1>2, <2>1, <2>3 DEF Words
    <3>4. s.cummulativeSize = space + 1 - First(r.offset)
      BY <1>0, <1>2, <2>1, <2>2, <3>1
    <3>5. InPart(s)
      BY <2>1, <3>1, <3>3, <3>4 DEF InPart
    <3>6. Move(t, s) /\ Stays
      BY <1>8, <2>3 DEF ReadWord
    <3>7. QED
      BY <1>3, <2>1, <3>1, <3>2, <3>5, <3>6
  <2>4. CASE ~(space > r.pos)
    <3> DEFINE s == [r EXCEPT !.pos = space + 1, !.cummulativeSize = @ + 1]
    <3>0. space = r.pos
      BY <1>0, <2>2, <2>4
    <3>1. /\ s \in RT /\ s.state = "reading" /\ s.offset = r.offset /\ s.pos = r.pos + 1
          /\ s.cummulativeSize = r.cummulativeSize + 1
      <4>1. space + 1 \in 0..MaxSize /\ r.cummulativeSize + 1 \in Nat
        BY <1>0, <2>2
      <4> HIDE DEF r, space
      <4>2. QED
        BY <1>0, <2>1, <3>0, <4>1
    <3>2. r.pos \notin Words
      BY <1>0, <3>0, NoWords
    <3>3. \A p \in Words : p \in Taken(s) <=> p \in Taken(r)
      BY <1>0, <1>1, <2>1, <3>1, <3>2 DEF Taken
    <3>4. s.pos \in Starts
      BY <2>2, <3>0, <3>1 DEF Starts
    <3>5. InPart(s)
      BY <1>0, <1>2, <2>1, <3>1, <3>4 DEF InPart
    <3>6. Move(t, s) /\ Stays
      BY <1>8, <2>4 DEF ReadWord
    <3>7. QED
      BY <1>3, <2>1, <3>1, <3>3, <3>5, <3>6
  <2>5. QED
    BY <2>3, <2>4
<1>9. CASE Receive(t)
  <2> DEFINE space == NextSpace(r.pos)
             s == [r EXCEPT !.state = "reading", !.pos = space + 1]
  <2>1. /\ Runs /\ r.state = "sending" /\ got = None /\ got' = r.pos /\ Move(t, s)
        /\ UNCHANGED <<input, mains, wg, closed, counter, dict>>
        /\ First(r.offset) # None /\ r.pos >= First(r.offset)
        /\ r.pos \in Words /\ r.pos <= First(r.offset) + Limit
        /\ r.cummulativeSize = space + 1 - First(r.offset)
    BY <1>0, <1>9 DEF Receive, InPart
  <2>2. space \in spaces /\ space \in Nat /\ space > r.pos /\ space + 1 \in 0..MaxSize
    BY <1>0, <2>1, SpaceAfter DEF Words
  <2>3. /\ s \in RT /\ s.state = "reading" /\ s.offset = r.offset /\ s.pos = space + 1
        /\ s.cummulativeSize = r.cummulativeSize
    BY <1>0, <2>2
  <2>4. s.pos \in Starts /\ s.pos >= First(r.offset)
    BY <1>0, <1>2, <2>1, <2>2, <2>3 DEF Starts
  <2>5. InPart(s)
    <3>1. First(s.offset) = First(r.offset) /\ First(r.offset) # None
      BY <2>1, <2>3
    <3>2. s.state = "reading"
      BY <2>3
    <3>3. /\ s.cummulativeSize = r.cummulativeSize /\ s.pos = space + 1
          /\ r.cummulativeSize = space + 1 - First(r.offset)
      BY <2>1, <2>3
    <3> HIDE DEF s, r, space
    <3>4. s.cummulativeSize = s.pos - First(r.offset)
      BY <1>2, <2>1, <2>2, <3>3
    <3>5. QED
      BY <2>4, <3>1, <3>2, <3>4, Reading
  <2>6. \A p \in Words : p \in Taken(s) <=> p \in Taken(r) \/ p = r.pos
    <3> SUFFICES ASSUME NEW p \in Words PROVE p \in Taken(s) <=> p \in Taken(r) \/ p = r.pos
      OBVIOUS
    <3>1. p \in Nat /\ (p > r.pos => p > space)
      BY <1>0, <1>1, <2>1, <2>2, NoWords
    <3>2. r.pos \in Part(r.offset)
      BY <1>0, <1>2, <2>1
    <3>3. p < space + 1 <=> p < r.pos \/ p = r.pos
      BY <1>0, <2>2, <3>1
    <3>4. QED
      BY <2>1, <2>3, <3>2, <3>3 DEF Taken
  <2>7. r.pos \notin Taken(r)
    BY <1>0, <2>1 DEF Taken
  <2>8. wg' = wg - Active(r) + Active(s)
    BY <1>1, <2>1, <2>3 DEF Active, Once
  <2>9. \A p \in Words : Once(got' = p) - Once(got = p) = Once(p \in Taken(s)) - Once(p \in Taken(r))
    <3> SUFFICES ASSUME NEW p \in Words
                 PROVE  Once(got' = p) - Once(got = p)
                          = Once(p \in Taken(s)) - Once(p \in Taken(r))
      OBVIOUS
    <3>1. got # p
      BY <1>1, <2>1 DEF None
    <3>2. CASE p = r.pos
      BY <2>1, <2>6, <2>7, <3>1, <3>2 DEF Once
    <3>3. CASE p # r.pos
      BY <2>1, <2>6, <3>1, <3>3 DEF Once
    <3>4. QED
      BY <3>2, <3>3
  <2> HIDE DEF s
  <2>10. QED
    BY <2>1, <2>3, <2>5, <2>8, <2>9, Moving
<1>10. CASE Leave(t)
  <2> DEFINE s == [r EXCEPT !.state = "done"]
  <2>1. s \in RT /\ s.state = "done" /\ s.offset = r.offset
    BY <1>0
  <2>2. Taken(s) = Taken(r) /\ InPart(s)
    BY <1>10, <2>1 DEF Leave, Taken, InPart
  <2>3. wg' = wg - Active(r) + Active(s)
    BY <1>1, <1>10, <2>1 DEF Leave, Active, Once
  <2>4. QED
    BY <1>0, <1>10, <2>1, <2>2, <2>3, Moving DEF Leave, counts, Once
<1>11. QED
  BY <1>4, <1>5, <1>6, <1>7, <1>8, <1>9, <1>10

\* A step that leaves the readers and the count as they are.
LEMMA MainSteps ==
  ASSUME PartsInv, Advance \/ Close \/ Return \/ SignalDone \/ UNCHANGED partVars
  PROVE  PartsInv'
<1> USE DEF PartsInv
<1>1. UNCHANGED <<input, size, spaces, reader, got, dict>>
  BY DEF Advance, Close, Return, SignalDone, partVars, counts, input
<1>2. /\ \A t \in Threads : InPart(reader[t])'
      /\ (got = None \/ got \in Words)' /\ \A p \in Words : Tally(p)'
  <2>1. \A t \in Threads : Taken(reader[t])' = Taken(reader[t])
    BY <1>1, Resting
  <2>2. UNCHANGED Words
    BY <1>1 DEF Words, Starts, NextSpace, None
  <2>3. \A t \in Threads : InPart(reader[t])'
    BY <1>1, Resting
  <2>4. \A p \in Words : Tally(p)'
    BY <1>1, <2>1 DEF Tally, Threads
  <2>5. (got = None \/ got \in Words)'
    BY <1>1, <2>2 DEF None
  <2>6. QED
    BY <2>3, <2>4, <2>5
<1>3. PartsType' /\ (main' # "panic" => Joining')
  <2>1. CASE Advance
    <3>1. UNCHANGED <<wg, closed, counter>> /\ current' \in Nat
      BY <2>1 DEF Advance, counts, PartsType
    <3>2. /\ main = "advance" /\ spawned \in 0..1 /\ spawned' = spawned + 1
          /\ main' = IF spawned' < 2 THEN "spawn" ELSE "wait"
      BY <2>1 DEF Advance, Joining, PartsType
    <3>3. Started' = Started
      BY <3>2 DEF Started, Once
    <3>4. QED
      BY <1>1, <3>1, <3>2, <3>3 DEF PartsType, MainStates, Joining, Active, None
  <2>2. CASE Close
    <3>1. /\ main = "wait" /\ main' = "drain" /\ closed' = TRUE /\ wg = 0
          /\ UNCHANGED <<spawned, current, wg, counter>>
      BY <2>2 DEF Close, counts
    <3>2. Active(reader[1]) = 0 /\ Active(reader[2]) = 0
      BY <3>1 DEF Joining, Active, Once
    <3>3. \A t \in Threads : reader[t].state = "done"
      BY <3>1, <3>2 DEF Joining, Started, Active, Once, Threads
    <3>4. QED
      BY <1>1, <3>1, <3>3
         DEF PartsType, MainStates, Joining, Started, Active, Once, None
  <2>3. CASE Return
    <3>1. /\ main = "drain" /\ main' = "returned" /\ counter = "done"
          /\ UNCHANGED <<spawned, current, wg, closed, counter>>
      BY <2>3 DEF Return, counts
    <3>2. QED
      BY <1>1, <3>1 DEF PartsType, MainStates, Joining, Started, Active, Once, None
  <2>4. CASE SignalDone
    <3>1. /\ closed /\ got = None /\ counter' = "done"
          /\ UNCHANGED <<main, spawned, current, wg, closed>>
      BY <2>4 DEF SignalDone, mains
    <3>2. QED
      BY <1>1, <3>1 DEF PartsType, Joining, Started, Active, Once, None
  <2>5. CASE UNCHANGED partVars
    BY <1>1, <2>5
       DEF partVars, mains, counts, PartsType, Joining, Started, Active, Once, None
  <2>6. QED
    BY <2>1, <2>2, <2>3, <2>4, <2>5
<1>4. UNCHANGED Words
  BY <1>1 DEF Words, Starts, NextSpace, None
<1>5. QED
  BY <1>2, <1>3, <1>4

LEMMA SpawnStep == PartsInv /\ Spawn => PartsInv'
<1> SUFFICES ASSUME PartsInv, Spawn PROVE PartsInv'
  OBVIOUS
<1> USE DEF PartsInv
<1>0. PICK n \in Threads : n = spawned + 1
  <2>1. main = "spawn" /\ spawned \in 0..2 /\ Joining
    BY DEF Spawn, PartsType
  <2>2. spawned \in 0..1
    BY <2>1 DEF Joining
  <2>3. QED
    BY <2>2 DEF Threads
<1> DEFINE r == [reader[n] EXCEPT !.state = "ready"]
<1>1. /\ main = "spawn" /\ main' = "advance" /\ spawned \in 0..1
      /\ UNCHANGED <<input, size, spaces, spawned, current, closed, got, counter, dict>>
      /\ wg' = wg + 1 /\ reader' = [reader EXCEPT ![n].state = "ready"] /\ Joining
  BY <1>0 DEF Spawn, AddedFirst, Joining, PartsType, counts, input
<1>2. /\ reader'[n] = r /\ \A t \in Threads : t # n => reader'[t] = reader[t]
      /\ r.state = "ready" /\ r.offset = reader[n].offset
      /\ r.cummulativeSize = reader[n].cummulativeSize
  BY <1>1 DEF PartsType
<1> HIDE DEF r
<1>a. Started = spawned /\ Started' = spawned + 1
  BY <1>0, <1>1 DEF Started, Once
<1>b. reader[n].state = "new"
  BY <1>0, <1>1, <1>a DEF Joining
<1>3. PartsType'
  <2>1. reader' \in [Threads -> [state : ReaderStates, offset : Nat,
                                 pos : 0..MaxSize, cummulativeSize : Nat]]
    BY <1>0, <1>1 DEF PartsType, ReaderStates
  <2>2. size' \in 0..MaxSize /\ spaces' \in SUBSET (0..(size' - 1))
        /\ got' \in 0..(None') /\ dict' \in [0..MaxSize -> Nat]
    BY <1>1 DEF PartsType, None
  <2>3. /\ main' \in MainStates /\ spawned' \in 0..2 /\ current' \in Nat /\ wg' \in Nat
        /\ closed' \in BOOLEAN /\ counter' \in {"ranging", "done"}
    BY <1>1 DEF PartsType, MainStates
  <2>4. QED
    BY <2>1, <2>2, <2>3 DEF PartsType
<1>4. \A t \in Threads : InPart(reader[t])'
  <2>1. InPart(reader[n])'
    BY <1>1, <1>2, <1>b DEF InPart
  <2>2. \A t \in Threads : t # n => InPart(reader[t])'
    BY <1>1, <1>2, Resting
  <2>3. QED
    BY <2>1, <2>2
<1>5. \A t \in Threads : Taken(reader[t])' = Taken(reader[t])
  <2>1. Taken(reader[n])' = {} /\ Taken(reader[n]) = {}
    BY <1>2, <1>b DEF Taken
  <2>2. \A t \in Threads : t # n => Taken(reader[t])' = Taken(reader[t])
    BY <1>1, <1>2, Resting
  <2>3. QED
    BY <2>1, <2>2
<1>6. (got = None \/ got \in Words)' /\ \A p \in Words' : Tally(p)'
  BY <1>1, <1>5 DEF Tally, Words, Starts, NextSpace, None, Threads
<1>7. Joining'
  <2>1. wg' = Active(reader'[1]) + Active(reader'[2])
    <3>1. CASE n = 1
      BY <1>1, <1>2, <1>b, <3>1 DEF Joining, Active, Once, Threads
    <3>2. CASE n = 2
      BY <1>1, <1>2, <1>b, <3>2 DEF Joining, Active, Once, Threads
    <3>3. QED
      BY <1>1, <3>1, <3>2 DEF Threads
  <2>2. \A t \in Threads : reader'[t].state = "new" <=> t > Started'
    BY <1>0, <1>1, <1>2, <1>a, <1>b DEF Joining, Threads
  <2>3. QED
    BY <1>1, <2>1, <2>2 DEF Joining, Active
<1>8. QED
  BY <1>3, <1>4, <1>6, <1>7

LEMMA CountStep == PartsInv /\ Count => PartsInv'
<1> SUFFICES ASSUME PartsInv, Count PROVE PartsInv'
  OBVIOUS
<1> USE DEF PartsInv
<1>1. /\ got \in Words /\ got \in 0..MaxSize /\ got # None /\ got' = None
      /\ dict' = [dict EXCEPT ![got] = @ + 1]
      /\ UNCHANGED <<input, size, spaces, reader, wg, closed, main, spawned, current, counter>>
  <2>1. got \in Words
    BY DEF Count
  <2>2. QED
    BY <2>1, StartType DEF Count, PartsType, Text, input, mains
<1>2. Words \subseteq 0..MaxSize
  BY StartType DEF PartsType, Text
<1>3. PartsType'
  BY <1>1 DEF PartsType, None
<1>4. \A t \in Threads : InPart(reader[t])'
  BY <1>1, Resting
<1>5. \A t \in Threads : Taken(reader[t])' = Taken(reader[t])
  BY <1>1, Resting
<1>6. \A p \in Words : Tally(p)'
  <2> SUFFICES ASSUME NEW p \in Words PROVE Tally(p)'
    OBVIOUS
  <2>1. Tally(p) /\ dict[p] \in Nat /\ p # None
    BY <1>2 DEF PartsType, None
  <2>2. dict'[p] + Once(got' = p) = dict[p] + Once(got = p)
    BY <1>1, <1>2, <2>1 DEF Once, PartsType
  <2>3. QED
    BY <1>5, <2>1, <2>2 DEF Tally, Threads
<1>7. UNCHANGED Words
  BY <1>1 DEF Words, Starts, NextSpace, None
<1>8. main' # "panic" => Joining'
  BY <1>1 DEF Joining, Started, Active, Once, None
<1>9. QED
  BY <1>1, <1>3, <1>4, <1>6, <1>7, <1>8 DEF None

\* Each word is counted once by each part it lies in: whenever main has returned, and
\* whatever offset the readers got, with nothing lost on the way to the dictionary;
\* and the parts main means to give are disjoint.
THEOREM CountsAreExact == PartsSpec => []CountsExact
<1>1. PartsInv /\ [PartsNext]_partVars => PartsInv'
  <2> SUFFICES ASSUME PartsInv, [PartsNext]_partVars PROVE PartsInv'
    OBVIOUS
  <2>1. ASSUME NEW t \in Threads, OpenFails(t) PROVE PartsInv'
    <3>1. UNCHANGED <<input, size, spaces, reader, got, dict, spawned, current, wg, closed,
                      counter>> /\ main' = "panic"
      BY <2>1 DEF OpenFails, counts, input
    <3>2. \A u \in Threads : Taken(reader[u])' = Taken(reader[u])
      BY <3>1, Resting
    <3>3. \A u \in Threads : InPart(reader[u])'
      BY <3>1, Resting DEF PartsInv
    <3>4. (\A p \in Words : Tally(p)') /\ UNCHANGED Words
      BY <3>1, <3>2 DEF PartsInv, Tally, Threads, Words, Starts, NextSpace, None
    <3>5. PartsType'
      BY <3>1 DEF PartsInv, PartsType, MainStates, None
    <3>6. QED
      BY <3>1, <3>3, <3>4, <3>5 DEF PartsInv, None
  <2>2. QED
    BY <2>1, Reads, MainSteps, SpawnStep, CountStep DEF PartsNext
<1>2. PartsInv => CountsExact
  <2> SUFFICES ASSUME PartsInv, main = "returned", NEW p \in Words
               PROVE  /\ dict[p] = Cardinality({t \in Threads : p \in Part(reader[t].offset)})
                      /\ InOrder => dict[p] <= 1 /\ (p <= Limit => dict[p] = 1)
    BY DEF CountsExact
  <2> DEFINE a == p \in Part(reader[1].offset)
             b == p \in Part(reader[2].offset)
             C == {t \in Threads : p \in Part(reader[t].offset)}
  <2>1. /\ \A t \in Threads : reader[t].state = "done" /\ reader[t].offset \in Nat
        /\ got = None
    BY DEF PartsInv, Joining, PartsType
  <2>2. Text /\ p \in Nat /\ p # None
    BY StartType DEF PartsInv, PartsType, Text, None
  <2>3. dict[p] = Once(a) + Once(b)
    <3>1. dict[p] \in Nat
      BY <2>2, StartType DEF PartsInv, PartsType
    <3>2. Tally(p)
      BY DEF PartsInv
    <3>3. Taken(reader[1]) = Part(reader[1].offset) /\ Taken(reader[2]) = Part(reader[2].offset)
      BY <2>1 DEF Taken, Threads
    <3>4. QED
      BY <2>1, <2>2, <3>1, <3>2, <3>3 DEF Tally, Once
  <2>4. Cardinality(C) = Once(a) + Once(b)
    <3>1. Cardinality({1}) = 1 /\ Cardinality({2}) = 1 /\ Cardinality({1, 2}) = 2
          /\ Cardinality({}) = 0
      <4>1. IsFiniteSet({2}) /\ Cardinality({1}) = 1 /\ Cardinality({2}) = 1
        BY FS_Singleton
      <4>2. Cardinality({2} \union {1}) = Cardinality({2}) + 1
        BY <4>1, FS_AddElement
      <4>3. {1, 2} = {2} \union {1}
        OBVIOUS
      <4>4. QED
        BY <4>1, <4>2, <4>3, FS_EmptySet
    <3>2. CASE a /\ b
      <4>1. C = {1, 2}
        BY <3>2 DEF Threads
      <4>2. Once(a) = 1 /\ Once(b) = 1
        BY <3>2 DEF Once
      <4>3. QED
        <5> HIDE DEF C, a, b
        <5>1. QED
          BY <3>1, <4>1, <4>2
    <3>3. CASE a /\ ~b
      <4>1. C = {1}
        BY <3>3 DEF Threads
      <4>2. Once(a) = 1 /\ Once(b) = 0
        BY <3>3 DEF Once
      <4>3. QED
        <5> HIDE DEF C, a, b
        <5>1. QED
          BY <3>1, <4>1, <4>2
    <3>4. CASE ~a /\ b
      <4>1. C = {2}
        BY <3>4 DEF Threads
      <4>2. Once(a) = 0 /\ Once(b) = 1
        BY <3>4 DEF Once
      <4>3. QED
        <5> HIDE DEF C, a, b
        <5>1. QED
          BY <3>1, <4>1, <4>2
    <3>5. CASE ~a /\ ~b
      <4>1. C = {}
        BY <3>5 DEF Threads
      <4>2. Once(a) = 0 /\ Once(b) = 0
        BY <3>5 DEF Once
      <4>3. QED
        <5> HIDE DEF C, a, b
        <5>1. QED
          BY <3>1, <4>1, <4>2
    <3>6. QED
      BY <3>2, <3>3, <3>4, <3>5
  <2>5. ASSUME InOrder PROVE dict[p] <= 1 /\ (p <= Limit => dict[p] = 1)
    <3>1. First(0) = 0 /\ 0 # None /\ Part(0) = {w \in Words : w \in 0..(0 + Limit)}
      <4>1. First(0) = 0 /\ 0 # None
        BY <2>2, PartIs DEF None
      <4>2. QED
        BY <2>2, <4>1, PartIs
    <3>2. a <=> p <= Limit
      BY <2>2, <2>5, <3>1 DEF InOrder
    <3>3. b => p > Limit
      <4> SUFFICES ASSUME b PROVE p > Limit
        OBVIOUS
      <4>1. Limit + 1 \in Nat /\ Limit + 1 # 0 /\ p \in Part(Limit + 1)
        BY <2>5 DEF InOrder
      <4>2. First(Limit + 1) # None /\ First(Limit + 1) \in Nat /\ p >= First(Limit + 1)
        BY <2>2, <4>1, PartIs
      <4>3. First(Limit + 1) > Limit
        BY <2>2, <4>1, <4>2, SpaceAfter DEF First
      <4>4. QED
        BY <2>2, <4>2, <4>3
    <3>4. QED
      BY <2>2, <2>3, <3>2, <3>3 DEF Once
  <2>6. QED
    BY <2>3, <2>4, <2>5
<1>3. QED
  BY InitParts, <1>1, <1>2, PTL DEF PartsSpec

=============================================================================
