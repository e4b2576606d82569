------------------------- MODULE SocksProxy_proofs -------------------------
(***************************************************************************)
(* Theorems about SocksProxy, for any number of clients, whatever each of  *)
(* them asks for, and any number of units sent either way.                 *)
(***************************************************************************)
EXTENDS SocksProxy, FiniteSetTheorems, TLAPS

USE SocksAssumption DEF First, Whole
-----------------------------------------------------------------------------
\* What the variables are, whoever races.
Fields == /\ alive \in BOOLEAN /\ accepts \in BOOLEAN /\ raced \in BOOLEAN /\ len \in Nat
          /\ slots \in [1..Cardinality(Clients) -> Clients \union {Empty}]
          /\ handler \in [Clients -> HandlerStates]
          /\ up \in [Clients -> {"none", "read", "write", "done"}]
          /\ client \in [Clients -> {"new", "open", "half", "gone"}]
          /\ remote \in [Clients -> {"none", "up", "ended", "closed"}]
          /\ reply \in [Clients -> {"none", "method", "connected"}]
          /\ asks \in [Clients -> Request]
Counters == /\ i \in [Clients -> Nat] /\ last \in [Clients -> Nat]
            /\ n \in [Clients -> Nat] /\ held \in [Clients -> Nat]
            /\ sent \in [Clients -> Nat] /\ taken \in [Clients -> Nat]
            /\ got \in [Clients -> Nat] /\ said \in [Clients -> Nat]
            /\ arrived \in [Clients -> Nat] /\ left \in [Clients -> Nat]
\* Conns is never longer than the number of connections that were appended, since
\* each length that is stored is one more than a length that was there before.
Appended == {c \in Clients : handler[c] \notin {"none", "append", "store"}}
Bounded == /\ len <= Cardinality(Appended)
           /\ \A c \in Clients : last[c] <= Cardinality(Appended)
           /\ \A c \in Clients : handler[c] = "remove" => i[c] >= 1
           /\ \A c \in Clients : client[c] = "new" <=> handler[c] = "none"
TypeInv == Fields /\ Counters /\ Bounded

LEMMA AppendedFinite == IsFiniteSet(Appended) /\ Cardinality(Appended) \in Nat
                        /\ Cardinality(Appended) <= Cardinality(Clients)
                        /\ Cardinality(Clients) \in Nat
<1>1. Appended \in SUBSET Clients
  BY DEF Appended
<1>2. QED
  BY <1>1, FS_Subset, FS_CardinalityType

LEMMA InitType == Init => TypeInv
<1> SUFFICES ASSUME Init PROVE TypeInv
  OBVIOUS
<1>1. Cardinality(Appended) \in Nat
  BY AppendedFinite
<1>2. None \in Request
  BY DEF None, Request
<1>3. Fields
  BY <1>2 DEF Init, Fields, HandlerStates
<1>4. Counters
  BY DEF Init, Counters, Zeros
<1>5. Bounded
  BY <1>1 DEF Init, Bounded, Zeros
<1>6. QED
  BY <1>3, <1>4, <1>5 DEF TypeInv

LEMMA AppendedGrows ==
  ASSUME TypeInv, NEW c \in Clients, Steps(c)
  PROVE  /\ ~AppendStores(c) => Cardinality(Appended') = Cardinality(Appended)
         /\ AppendStores(c) => Cardinality(Appended') = Cardinality(Appended) + 1
<1> USE DEF Put, Goes, HandlerStates
<1>0. /\ handler \in [Clients -> HandlerStates]
      /\ client[c] = "new" <=> handler[c] = "none"
  BY DEF TypeInv, Fields, Bounded
<1>1. ASSUME AppendStores(c) PROVE Cardinality(Appended') = Cardinality(Appended) + 1
  <2>1. Appended' = Appended \union {c} /\ c \notin Appended
    BY <1>1, <1>0 DEF AppendStores, Appended
  <2>2. QED
    BY <2>1, AppendedFinite, FS_AddElement
<1>2. CASE Connect(c) \/ Send(c) \/ CloseWrite(c) \/ Quit(c) \/ AppendReads(c)
  BY <1>2, <1>0, <1>1 DEF Connect, Send, CloseWrite, Quit, AppendReads, Appended
<1>3. CASE ReadGreeting(c) \/ ReadRequest(c)
  BY <1>3, <1>0, <1>1 DEF ReadGreeting, ReadRequest, Appended
<1>4. CASE HeadFails(c) \/ Dial(c) \/ DialFails(c) \/ DownRead(c) \/ DownWrite(c) \/ DownEnds(c)
  BY <1>4, <1>0, <1>1 DEF HeadFails, Dial, DialFails, DownRead, DownWrite, DownEnds, Appended
<1>5. CASE RangeStarts(c) \/ RangeStep(c) \/ Return(c)
  BY <1>5, <1>0, <1>1 DEF RangeStarts, RangeStep, Return, Appended
<1>6. CASE netCopy(c) \/ Say(c) \/ End(c)
  BY <1>6, <1>0, <1>1 DEF netCopy, UpRead, UpWrite, UpEnds, Say, End, Appended
<1>7. QED
  BY <1>1, <1>2, <1>3, <1>4, <1>5, <1>6 DEF Steps, handleConnection

LEMMA StepFields == ASSUME TypeInv, NEW c \in Clients, Steps(c) PROVE Fields'
<1> USE DEF Put, Goes, HandlerStates, list, far, near
<1>t. Fields
  BY DEF TypeInv
<1>1. CASE Connect(c) \/ Send(c) \/ CloseWrite(c) \/ Quit(c)
  BY <1>1, <1>t DEF Connect, Send, CloseWrite, Quit, Fields
<1>2. CASE AppendReads(c) \/ RangeStarts(c)
  BY <1>2, <1>t DEF AppendReads, RangeStarts, Races, Fields
<1>3. CASE AppendStores(c)
  <2>1. slots' \in [1..Cardinality(Clients) -> Clients \union {Empty}]
    BY <1>3, <1>t DEF AppendStores, Fields
  <2>2. len' \in Nat
    BY <1>3 DEF AppendStores, TypeInv, Counters
  <2>3. QED
    BY <1>3, <1>t, <2>1, <2>2 DEF AppendStores, Fields
<1>4. CASE RangeStep(c)
  <2>1. /\ len <= Cardinality(Clients) /\ len \in Nat /\ Cardinality(Clients) \in Nat
        /\ i[c] \in Nat /\ i[c] >= 1
        /\ slots \in [1..Cardinality(Clients) -> Clients \union {Empty}]
    BY <1>4, AppendedFinite DEF RangeStep, TypeInv, Fields, Counters, Bounded
  <2>2. CASE UNCHANGED <<alive, len, slots>> \/ (alive' = FALSE /\ UNCHANGED <<len, slots>>)
    BY <1>4, <1>t, <2>2 DEF RangeStep, Fields
  <2>3. CASE i[c] <= len /\ slots' = MovedDown(i[c]) /\ len' = len - 1 /\ UNCHANGED alive
    <3>1. MovedDown(i[c]) \in [1..Cardinality(Clients) -> Clients \union {Empty}]
      BY <2>1 DEF MovedDown
    <3>2. len - 1 \in Nat
      BY <2>1, <2>3
    <3>3. QED
      BY <1>4, <1>t, <2>3, <3>1, <3>2 DEF RangeStep, Fields
  <2>4. i[c] > len \/ i[c] <= len
    BY <2>1
  <2>5. QED
    BY <1>4, <2>2, <2>3, <2>4 DEF RangeStep
<1>5. CASE Return(c) \/ HeadFails(c) \/ Dial(c) \/ DialFails(c)
  BY <1>5, <1>t DEF Return, HeadFails, Dial, DialFails, Fields
<1>6. CASE ReadGreeting(c)
  BY <1>6, <1>t DEF ReadGreeting, Fields
<1>7. CASE ReadRequest(c)
  <2>1. alive' \in BOOLEAN /\ handler' \in [Clients -> HandlerStates]
    BY <1>7, <1>t DEF ReadRequest, Fields
  <2>2. QED
    BY <1>7, <1>t, <2>1 DEF ReadRequest, Fields
<1>8. CASE DownRead(c) \/ DownWrite(c) \/ DownEnds(c)
  BY <1>8, <1>t DEF DownRead, DownWrite, DownEnds, Fields
<1>9. CASE netCopy(c) \/ Say(c) \/ End(c)
  BY <1>9, <1>t DEF netCopy, UpRead, UpWrite, UpEnds, Say, End, Fields
<1>10. QED
  BY <1>1, <1>2, <1>3, <1>4, <1>5, <1>6, <1>7, <1>8, <1>9 DEF Steps, handleConnection

LEMMA StepCounters == ASSUME TypeInv, NEW c \in Clients, Steps(c) PROVE Counters'
<1> USE DEF Put, Goes, list, far, near
<1>t. Counters /\ len \in Nat
  BY DEF TypeInv, Fields
<1>1. CASE Connect(c) \/ Send(c) \/ CloseWrite(c) \/ Quit(c)
  BY <1>1, <1>t DEF Connect, Send, CloseWrite, Quit, Counters
<1>2. CASE AppendReads(c) \/ AppendStores(c) \/ RangeStarts(c) \/ RangeStep(c) \/ Return(c)
  BY <1>2, <1>t DEF AppendReads, AppendStores, RangeStarts, RangeStep, Return, Counters
<1>3. CASE ReadGreeting(c)
  BY <1>3, <1>t DEF ReadGreeting, Reads, There, Counters
<1>4. CASE ReadRequest(c)
  BY <1>4, <1>t DEF ReadRequest, Reads, There, Counters
<1>5. CASE HeadFails(c) \/ Dial(c) \/ DialFails(c) \/ DownEnds(c) \/ UpEnds(c) \/ End(c)
  BY <1>5, <1>t DEF HeadFails, Dial, DialFails, DownEnds, UpEnds, End, Counters
<1>6. CASE DownRead(c)
  <2>1. PICK k \in 1..left[c] : n' = Put(n, c, k) /\ left' = Put(left, c, left[c] - k)
    BY <1>6 DEF DownRead
  <2>2. k \in Nat /\ left[c] - k \in Nat
    BY <1>t DEF Counters
  <2>3. QED
    BY <1>6, <1>t, <2>1, <2>2 DEF DownRead, Counters
<1>7. CASE DownWrite(c)
  BY <1>7, <1>t DEF DownWrite, Counters
<1>8. CASE UpRead(c)
  BY <1>8, <1>t DEF UpRead, There, Counters
<1>9. CASE UpWrite(c)
  BY <1>9, <1>t DEF UpWrite, Counters
<1>10. CASE Say(c)
  BY <1>10, <1>t DEF Say, Counters
<1>11. QED
  BY <1>1, <1>2, <1>3, <1>4, <1>5, <1>6, <1>7, <1>8, <1>9, <1>10
     DEF Steps, handleConnection, netCopy

LEMMA StepBounded == ASSUME TypeInv, NEW c \in Clients, Steps(c) PROVE Bounded'
<1> USE DEF Put, Goes, HandlerStates, list, far, near
<1>0. Cardinality(Appended) \in Nat /\ Cardinality(Appended) <= Cardinality(Appended')
  BY AppendedFinite, AppendedGrows
<1>1. /\ handler \in [Clients -> HandlerStates]
      /\ client \in [Clients -> {"new", "open", "half", "gone"}]
      /\ Counters /\ len \in Nat /\ Bounded
  BY DEF TypeInv, Fields
<1>2. CASE AppendStores(c)
  <2>1. Cardinality(Appended') = Cardinality(Appended) + 1
    BY <1>2, AppendedGrows
  <2>2. last[c] <= Cardinality(Appended) /\ last[c] \in Nat
    BY <1>1 DEF Bounded, Counters
  <2>3. len' <= Cardinality(Appended')
    BY <1>2, <1>0, <2>1, <2>2 DEF AppendStores
  <2>4. \A d \in Clients : last'[d] <= Cardinality(Appended')
    BY <1>2, <1>0, <1>1, <2>1 DEF AppendStores, Counters, Bounded
  <2>5. QED
    BY <1>1, <1>2, <2>3, <2>4 DEF AppendStores, Bounded
<1>3. CASE ~AppendStores(c)
  <2>0. Cardinality(Appended') = Cardinality(Appended)
    BY <1>3, AppendedGrows
  <2>1. CASE Connect(c) \/ Send(c) \/ CloseWrite(c) \/ Quit(c) \/ AppendReads(c)
    BY <2>1, <2>0, <1>0, <1>1 DEF Connect, Send, CloseWrite, Quit, AppendReads, Bounded, Counters
  <2>2. CASE RangeStarts(c) \/ RangeStep(c) \/ Return(c)
    BY <2>2, <2>0, <1>0, <1>1 DEF RangeStarts, RangeStep, Return, Bounded, Counters
  <2>3. CASE ReadGreeting(c) \/ ReadRequest(c)
    <3>1. /\ \A d \in Clients : /\ handler'[d] = "remove" => handler[d] = "remove"
                                /\ handler'[d] = "none" <=> handler[d] = "none"
          /\ UNCHANGED <<client, list>>
      BY <2>3, <1>1 DEF ReadGreeting, ReadRequest
    <3>2. QED
      BY <2>0, <3>1, <1>1 DEF Bounded
  <2>4. CASE HeadFails(c) \/ Dial(c) \/ DialFails(c) \/ DownRead(c) \/ DownWrite(c) \/ DownEnds(c)
    BY <2>4, <2>0, <1>1 DEF HeadFails, Dial, DialFails, DownRead, DownWrite, DownEnds, Bounded
  <2>5. CASE netCopy(c) \/ Say(c) \/ End(c)
    BY <2>5, <2>0, <1>1 DEF netCopy, UpRead, UpWrite, UpEnds, Say, End, Bounded
  <2>6. QED
    BY <1>3, <2>1, <2>2, <2>3, <2>4, <2>5 DEF Steps, handleConnection
<1>4. QED
  BY <1>2, <1>3

LEMMA NextType == TypeInv /\ [Next]_vars => TypeInv'
<1>1. ASSUME TypeInv, NEW c \in Clients, Steps(c) PROVE TypeInv'
  BY <1>1, StepFields, StepCounters, StepBounded DEF TypeInv
<1>2. ASSUME TypeInv, UNCHANGED vars PROVE TypeInv'
  BY <1>2 DEF vars, list, near, far, TypeInv, Fields, Counters, Bounded, Appended
<1>3. ASSUME TypeInv, AcceptFails PROVE TypeInv'
  BY <1>3 DEF AcceptFails, near, far, TypeInv, Fields, Counters, Bounded, Appended
<1>4. QED
  BY <1>1, <1>2, <1>3 DEF Next
-----------------------------------------------------------------------------
\* Where handler is tells what was read and copied so far.  Until the dial there is no
\* remote host; the greeting and the request are read whole, unless handler leaves;
\* what a remote host has said is received, held or still to be read, and all of it
\* received when handler leaves, unless the client is gone; what was taken from the
\* client after the request has arrived or is held, as long as the remote host is up;
\* a client has sent no more than the replies it has seen allow; and it is admitted as
\* in NotTurnedAway.
BeforeDial == {"none", "append", "store", "greet", "request", "dial"}
Phases(c) ==
  /\ handler[c] = "none" => sent[c] = 0
  /\ handler[c] \in BeforeDial =>
       /\ remote[c] = "none" /\ up[c] = "none" /\ held[c] = 0
       /\ said[c] = 0 /\ left[c] = 0 /\ got[c] = 0 /\ arrived[c] = 0
  /\ handler[c] \in {"none", "append", "store"} => taken[c] = 0 /\ n[c] = 0
  /\ handler[c] \in {"none", "append", "store", "greet"} => reply[c] = "none"
  /\ handler[c] = "greet" => taken[c] = n[c]
  /\ handler[c] = "request" => /\ alive => taken[c] = Whole + n[c]
                               /\ reply[c] = "method"
  /\ handler[c] = "dial" => taken[c] = 2 * Whole /\ n[c] = 0
  /\ handler[c] \in {"read", "write"} => taken[c] >= 2 * Whole
  /\ handler[c] = "read" => n[c] = 0
  /\ remote[c] = "up" => handler[c] \in {"read", "write"}
  /\ up[c] \in {"none", "read"} => held[c] = 0
Downstream(c) == client[c] # "gone" =>
  /\ handler[c] \in {"read", "write"} => got[c] + n[c] + left[c] = said[c]
  /\ handler[c] \in {"leave", "remove", "returned"} => got[c] = said[c]
Upstream(c) == remote[c] = "up" => arrived[c] + held[c] + 2 * Whole = taken[c]
Waits(c) ==
  /\ taken[c] <= sent[c] /\ left[c] <= said[c]
  /\ sent[c] \in {0, Whole} \/ sent[c] >= 2 * Whole
  /\ reply[c] # "connected" => sent[c] <= 2 * Whole
  /\ reply[c] = "none" /\ asks[c].way # "eager" => sent[c] <= Whole
Admitted(c) ==
  (Acceptable(c) /\ client[c] = "open" /\ handler[c] \in {"leave", "remove", "returned"})
    => taken[c] >= 2 * Whole
Session(c) == Phases(c) /\ Downstream(c) /\ Upstream(c) /\ Waits(c) /\ Admitted(c)
SessionInv == \A c \in Clients : Session(c)

LEMMA InitSession == Init => SessionInv
BY DEF Init, SessionInv, Session, Phases, Downstream, Upstream, Waits, Admitted, BeforeDial,
       Zeros

\* A step of one client's connection changes nothing of another one.
Same(d) == /\ handler'[d] = handler[d] /\ up'[d] = up[d] /\ client'[d] = client[d]
           /\ remote'[d] = remote[d] /\ reply'[d] = reply[d] /\ asks'[d] = asks[d]
           /\ n'[d] = n[d] /\ held'[d] = held[d] /\ sent'[d] = sent[d] /\ taken'[d] = taken[d]
           /\ got'[d] = got[d] /\ said'[d] = said[d] /\ arrived'[d] = arrived[d]
           /\ left'[d] = left[d]
Apart(c) == \A d \in Clients \ {c} : Same(d)

\* An assignment for one client.
LEMMA PutIs ==
  ASSUME TypeInv, NEW c \in Clients
  PROVE  \A v : \A f \in {handler, up, client, remote, reply, asks, n, held, sent, taken, got,
                          said, arrived, left} :
           Put(f, c, v)[c] = v /\ \A d \in Clients \ {c} : Put(f, c, v)[d] = f[d]
<1>1. ASSUME NEW S, NEW f \in [Clients -> S], NEW v
      PROVE  Put(f, c, v)[c] = v /\ \A d \in Clients \ {c} : Put(f, c, v)[d] = f[d]
  BY DEF Put
<1>2. \A f \in {handler, up, client, remote, reply, asks} : \E S : f \in [Clients -> S]
  BY DEF TypeInv, Fields
<1>3. \A f \in {n, held, sent, taken, got, said, arrived, left} : f \in [Clients -> Nat]
  BY DEF TypeInv, Counters
<1>4. ASSUME NEW v, NEW f \in {handler, up, client, remote, reply, asks, n, held, sent, taken,
                               got, said, arrived, left}
      PROVE  Put(f, c, v)[c] = v /\ \A d \in Clients \ {c} : Put(f, c, v)[d] = f[d]
  <2>1. PICK S : f \in [Clients -> S]
    BY <1>2, <1>3
  <2>2. QED
    BY <1>1, <2>1
<1>5. QED
  BY <1>4

LEMMA OthersSame == ASSUME TypeInv, NEW c \in Clients, Steps(c) PROVE Apart(c)
<1> USE PutIs DEF Apart, Same, Goes, list, far, near
<1>1. CASE Connect(c)
  BY <1>1 DEF Connect
<1>2. CASE Send(c)
  BY <1>2 DEF Send
<1>2a. CASE CloseWrite(c) \/ Quit(c)
  BY <1>2a DEF CloseWrite, Quit
<1>3. CASE AppendReads(c) \/ AppendStores(c)
  BY <1>3 DEF AppendReads, AppendStores
<1>4. CASE RangeStarts(c)
  BY <1>4 DEF RangeStarts
<1>5. CASE RangeStep(c)
  BY <1>5 DEF RangeStep
<1>6. CASE Return(c)
  BY <1>6 DEF Return
<1>7. CASE ReadGreeting(c)
  BY <1>7 DEF ReadGreeting
<1>8. CASE ReadRequest(c)
  BY <1>8 DEF ReadRequest
<1>9. CASE HeadFails(c) \/ DialFails(c)
  BY <1>9 DEF HeadFails, DialFails
<1>10. CASE Dial(c)
  BY <1>10 DEF Dial
<1>11. CASE DownRead(c)
  BY <1>11 DEF DownRead
<1>12. CASE DownWrite(c) \/ DownEnds(c)
  BY <1>12 DEF DownWrite, DownEnds
<1>13. CASE UpRead(c)
  BY <1>13 DEF UpRead
<1>14. CASE UpWrite(c)
  BY <1>14 DEF UpWrite
<1>15. CASE UpEnds(c)
  BY <1>15 DEF UpEnds
<1>16. CASE Say(c)
  BY <1>16 DEF Say
<1>17. CASE End(c)
  BY <1>17 DEF End
<1>18. QED
  BY <1>1, <1>2, <1>2a, <1>3, <1>4, <1>5, <1>6, <1>7, <1>8, <1>9, <1>10, <1>11, <1>12, <1>13, <1>14,
     <1>15, <1>16, <1>17
     DEF Steps, handleConnection, netCopy

\* The types of what a step of the connection of c changes.
Here(c) == /\ handler[c] \in HandlerStates /\ client[c] \in {"new", "open", "half", "gone"}
           /\ remote[c] \in {"none", "up", "ended", "closed"} /\ asks[c] \in Request
           /\ n[c] \in Nat /\ held[c] \in Nat /\ sent[c] \in Nat /\ taken[c] \in Nat
           /\ got[c] \in Nat /\ said[c] \in Nat /\ arrived[c] \in Nat /\ left[c] \in Nat
           /\ client[c] = "new" <=> handler[c] = "none"
LEMMA HereTyped == ASSUME TypeInv, NEW c \in Clients PROVE Here(c)
BY DEF TypeInv, Fields, Counters, Bounded, Here

LEMMA GreetingSession == ASSUME TypeInv, NEW c \in Clients, alive, Session(c), ReadGreeting(c)
                         PROVE  Session(c)'
<1> USE PutIs DEF Goes, list, far, near
<1>0. Here(c)
  BY HereTyped
<1>1. PICK k \in Reads(c) : ReadGreeting(c)!2!(k)
  BY DEF ReadGreeting
<1>2. /\ handler[c] = "greet" /\ taken[c] = n[c] /\ reply[c] = "none"
      /\ UNCHANGED <<alive, list, up, held, near, far>>
  BY DEF ReadGreeting, Session, Phases
<1>3. k \in Nat /\ taken[c] + k <= sent[c] /\ taken'[c] = taken[c] + k
  BY <1>0, <1>1 DEF Here, Reads, There
<1>4. Waits(c)'
  BY <1>0, <1>1, <1>2, <1>3 DEF Here, Session, Waits
<1>5. Admitted(c)'
  BY <1>0, <1>1, <1>2, <1>3
     DEF Here, Session, Waits, Admitted, Acceptable, GreetingFails, PartIsNoError
<1>6. Phases(c)' /\ Downstream(c)' /\ Upstream(c)'
  BY <1>0, <1>1, <1>2, <1>3
     DEF Here, Session, Phases, Downstream, Upstream, BeforeDial, GreetingFails, PartIsNoError
<1>7. QED
  BY <1>4, <1>5, <1>6 DEF Session

LEMMA RequestSession == ASSUME TypeInv, NEW c \in Clients, alive, Session(c), ReadRequest(c)
                        PROVE  Session(c)'
<1> USE PutIs DEF Goes, list, far, near
<1>0. Here(c)
  BY HereTyped
<1>1. PICK k \in Reads(c) : ReadRequest(c)!2!(k)
  BY DEF ReadRequest
<1>2. /\ handler[c] = "request" /\ taken[c] = Whole + n[c] /\ reply[c] = "method"
      /\ UNCHANGED <<list, up, held, near, reply, far>>
  BY DEF ReadRequest, Session, Phases
<1>3. k \in Nat /\ taken[c] + k <= sent[c] /\ taken'[c] = taken[c] + k
  BY <1>0, <1>1 DEF Here, Reads, There
<1>4. Waits(c)'
  BY <1>0, <1>1, <1>2, <1>3 DEF Here, Session, Waits
<1>5. CASE /\ n[c] + k >= First /\ RequestFails(c, n[c] + k) /\ ~LogPanics(c)
           /\ Goes(c, "leave") /\ UNCHANGED <<alive, n>>
  <2>1. handler'[c] = "leave"
    BY <1>5
  <2>2. ~Acceptable(c)'
    BY <1>0, <1>2, <1>3, <1>5
       DEF Here, Session, Waits, RequestFails, PartIsNoError, Request, Acceptable
  <2>3. QED
    BY <1>0, <1>2, <1>4, <1>5, <2>1, <2>2
       DEF Here, Session, Phases, Downstream, Upstream, Admitted, BeforeDial
<1>6. CASE n' = Put(n, c, n[c] + k) /\ UNCHANGED <<alive, handler>>
  <2>1. n'[c] = n[c] + k
    BY <1>6
  <2>2. QED
    BY <1>0, <1>2, <1>3, <1>4, <1>6, <2>1
       DEF Here, Session, Phases, Downstream, Upstream, Admitted, BeforeDial
<1>7. CASE alive' = FALSE /\ UNCHANGED <<handler, n>>
  BY <1>0, <1>2, <1>3, <1>4, <1>7
     DEF Here, Session, Phases, Downstream, Upstream, Admitted, BeforeDial
<1>8. CASE /\ n[c] + k >= Whole /\ ~RequestFails(c, n[c] + k)
           /\ Goes(c, "dial") /\ n' = Put(n, c, 0) /\ UNCHANGED alive
  <2>1. n[c] + k = Whole /\ taken'[c] = 2 * Whole
    BY <1>0, <1>2, <1>3, <1>8 DEF Here, RequestFails, PartIsNoError
  <2>2. handler'[c] = "dial" /\ n'[c] = 0
    BY <1>8
  <2>3. QED
    BY <1>0, <1>2, <1>4, <2>1, <2>2
       DEF Here, Session, Phases, Downstream, Upstream, Admitted, BeforeDial
<1>9. QED
  <2>1. ~(n[c] + k < Whole) => n[c] + k >= Whole /\ n[c] + k >= First
    BY <1>0, <1>3 DEF Here
  <2>2. QED
    BY <1>1, <1>5, <1>6, <1>7, <1>8, <2>1

\* Every other step of a connection.
LEMMA StepSession == ASSUME TypeInv, NEW c \in Clients, alive, Session(c), Steps(c)
                     PROVE  Session(c)'
<1> USE PutIs DEF Goes, list, far, near
<1>0. Here(c)
  BY HereTyped
<1> USE DEF Here, Session, Phases, Downstream, Upstream, Waits, Admitted, Acceptable, BeforeDial
<1>1. CASE Connect(c)
  BY <1>1, <1>0 DEF Connect
<1>2. CASE Send(c)
  BY <1>2, <1>0 DEF Send, MaySend
<1>3. CASE CloseWrite(c)
  BY <1>3, <1>0 DEF CloseWrite
<1>4. CASE Quit(c)
  BY <1>4, <1>0 DEF Quit
<1>5. CASE AppendReads(c)
  BY <1>5, <1>0 DEF AppendReads
<1>6. CASE AppendStores(c)
  BY <1>6, <1>0 DEF AppendStores
<1>7. CASE RangeStarts(c)
  BY <1>7, <1>0 DEF RangeStarts
<1>7a. CASE RangeStep(c)
  BY <1>7a, <1>0 DEF RangeStep
<1>7b. CASE Return(c)
  BY <1>7b, <1>0 DEF Return
<1>8. CASE HeadFails(c)
  BY <1>8, <1>0 DEF HeadFails, ReadFails
<1>9. CASE DialFails(c)
  BY <1>9, <1>0 DEF DialFails
<1>10. CASE Dial(c)
  BY <1>10, <1>0 DEF Dial
<1>11. CASE DownRead(c)
  BY <1>11, <1>0 DEF DownRead
<1>12. CASE DownWrite(c)
  BY <1>12, <1>0 DEF DownWrite
<1>13. CASE DownEnds(c)
  BY <1>13, <1>0 DEF DownEnds, RemoteEnds
<1>14. CASE UpRead(c)
  BY <1>14, <1>0 DEF UpRead, There
<1>15. CASE UpWrite(c)
  BY <1>15, <1>0 DEF UpWrite
<1>16. CASE UpEnds(c)
  BY <1>16, <1>0 DEF UpEnds
<1>16a. CASE End(c)
  BY <1>16a, <1>0 DEF End
<1>17. CASE Say(c)
  <2>1. /\ remote[c] = "up" /\ said'[c] = said[c] + 1 /\ left'[c] = left[c] + 1
        /\ UNCHANGED <<alive, list, handler, n, up, held, near, taken, reply, remote, arrived>>
    BY <1>17 DEF Say
  <2>2. QED
    BY <1>0, <2>1
<1>18. QED
  BY <1>1, <1>2, <1>3, <1>4, <1>5, <1>6, <1>7, <1>7a, <1>7b, <1>8, <1>9, <1>10, <1>11, <1>12, <1>13, <1>14,
     <1>15, <1>16, <1>16a, <1>17,
     GreetingSession, RequestSession
     DEF Steps, handleConnection, netCopy

LEMMA NextSession == TypeInv /\ SessionInv /\ [Next]_vars => SessionInv'
<1> SUFFICES ASSUME TypeInv, SessionInv, [Next]_vars PROVE SessionInv'
  OBVIOUS
<1>1. ASSUME NEW d \in Clients, Same(d), alive' => alive PROVE Session(d)'
  <2>1. Session(d)
    BY DEF SessionInv
  <2>2. QED
    BY <1>1, <2>1 DEF Same, Session, Phases, Downstream, Upstream, Waits, Admitted, Acceptable,
              BeforeDial
<1>2. ASSUME UNCHANGED vars PROVE SessionInv'
  BY <1>1, <1>2 DEF vars, Same, SessionInv, near, far
<1>5. ASSUME AcceptFails PROVE SessionInv'
  BY <1>1, <1>5 DEF AcceptFails, Same, SessionInv, near, far
<1>3. ASSUME NEW c \in Clients, alive, Steps(c) PROVE SessionInv'
  <2>1. Session(c)' /\ Apart(c)
    BY <1>3, StepSession, OthersSame DEF SessionInv
  <2>2. QED
    BY <1>1, <1>3, <2>1 DEF Apart, SessionInv
<1>4. QED
  BY <1>2, <1>3, <1>5 DEF Next
-----------------------------------------------------------------------------
\* Conns, as long as no handler has used it while another one was changing it: at most
\* one handler does; the one that appends still knows the length; the list holds
\* every connection being handled, each once; and the one that removes itself is
\* still ahead in the list it ranges over, or no longer in what is left to range over.
OneUser == \A c, d \in Clients : Using(c) /\ Using(d) => c = d
Kept(c) == Listed(c) /\ (handler[c] = "remove" => last[c] = len)
Distinct == \A j, k \in 1..len : slots[j] = slots[k] => j = k
OnlyKept == \A k \in 1..len : slots[k] \in Clients /\ Kept(slots[k])
AllKept == \A c \in Clients : Kept(c) => \E k \in 1..len : slots[k] = c
Storing(c) == handler[c] = "store" => last[c] = len
Ahead(c) == last[c] = len /\ \E k \in i[c]..len : slots[k] = c
Behind(c) == last[c] = len + 1 /\ \A k \in i[c]..last[c] : slots[k] # c
Removing(c) == handler[c] = "remove" => Ahead(c) \/ Behind(c)
Exact == /\ OneUser /\ Distinct /\ OnlyKept /\ AllKept
         /\ \A c \in Clients : Storing(c) /\ Removing(c)
ListInv == ~raced => Exact

LEMMA InitList == Init => ListInv
BY DEF Init, ListInv, Exact, OneUser, Distinct, OnlyKept, AllKept, Kept, Storing, Removing,
       Using, Listed

\* A step that does not touch Conns moves a handler between two states that mean the
\* same to the list.
Stage(h) == IF h \in {"none", "append", "returned"} THEN "off"
            ELSE IF h \in {"store", "remove"} THEN h ELSE "on"
LEMMA ListUntouched ==
  ASSUME TypeInv, ListInv, UNCHANGED <<len, slots, raced, i, last>>,
         \A d \in Clients : Stage(handler'[d]) = Stage(handler[d])
  PROVE  ListInv'
<1>1. \A d \in Clients : /\ handler'[d] = "store" <=> handler[d] = "store"
                         /\ handler'[d] = "remove" <=> handler[d] = "remove"
                         /\ Listed(d)' <=> Listed(d)
  BY DEF Stage, Listed
<1>2. \A d \in Clients : (Using(d)' <=> Using(d)) /\ (Kept(d)' <=> Kept(d))
  BY <1>1 DEF Using, Kept
<1>3. Distinct' <=> Distinct
  BY DEF Distinct
<1>4. (OnlyKept' <=> OnlyKept) /\ (AllKept' <=> AllKept)
  BY <1>2 DEF OnlyKept, AllKept
<1>5. \A d \in Clients : (Storing(d)' <=> Storing(d)) /\ (Removing(d)' <=> Removing(d))
  BY <1>1 DEF Storing, Removing, Ahead, Behind
<1>6. OneUser' <=> OneUser
  BY <1>2 DEF OneUser
<1>7. QED
  BY <1>3, <1>4, <1>5, <1>6 DEF ListInv, Exact, list

\* Appending: the length has not changed since it was read.
LEMMA AppendReadsList == ASSUME TypeInv, ListInv, NEW c \in Clients, AppendReads(c)
                         PROVE  ListInv'
<1> SUFFICES ASSUME ~raced' PROVE Exact'
  BY DEF ListInv
<1>1. /\ handler[c] = "append" /\ handler'[c] = "store" /\ last'[c] = len
      /\ UNCHANGED <<len, slots, i>>
      /\ \A d \in Clients \ {c} : handler'[d] = handler[d] /\ last'[d] = last[d]
  BY DEF AppendReads, Goes, Put, TypeInv, Fields, Counters
<1>2. ~raced /\ \A d \in Clients \ {c} : ~Using(d)
  BY DEF AppendReads, Races
<1>3. Exact
  BY <1>2 DEF ListInv
<1>4. \A d \in Clients : Kept(d)' <=> Kept(d)
  BY <1>1, <1>2 DEF Kept, Listed, Using
<1>5. OneUser' /\ Distinct' /\ OnlyKept' /\ AllKept'
  BY <1>1, <1>2, <1>3, <1>4 DEF Exact, OneUser, Distinct, OnlyKept, AllKept, Using
<1>6. \A d \in Clients : Storing(d)' /\ Removing(d)'
  BY <1>1, <1>2 DEF Storing, Removing, Using
<1>7. QED
  BY <1>5, <1>6 DEF Exact

LEMMA AppendStoresList == ASSUME TypeInv, ListInv, NEW c \in Clients, AppendStores(c)
                          PROVE  ListInv'
<1> SUFFICES ASSUME ~raced' PROVE Exact'
  BY DEF ListInv
<1>1. /\ handler[c] = "store" /\ handler'[c] = "greet" /\ len' = last[c] + 1
      /\ slots' = [slots EXCEPT ![last[c] + 1] = c] /\ ~raced
      /\ \A d \in Clients \ {c} : handler'[d] = handler[d] /\ last'[d] = last[d]
  BY DEF AppendStores, Goes, Put, TypeInv, Fields, Counters
<1>2. Exact
  BY <1>1 DEF ListInv
<1>3. last[c] = len /\ \A d \in Clients \ {c} : ~Using(d)
  BY <1>1, <1>2 DEF Exact, Storing, OneUser, Using
<1>4. len + 1 \in 1..Cardinality(Clients)
  <2>1. c \notin Appended /\ Appended \union {c} \in SUBSET Clients
    BY <1>1 DEF Appended
  <2>2. Cardinality(Appended \union {c}) = Cardinality(Appended) + 1
    BY <2>1, AppendedFinite, FS_AddElement
  <2>3. Cardinality(Appended \union {c}) <= Cardinality(Clients)
    BY <2>1, FS_Subset
  <2>4. QED
    BY <2>2, <2>3, AppendedFinite DEF TypeInv, Fields, Bounded
<1>5. slots'[len + 1] = c /\ \A k \in 1..len : slots'[k] = slots[k]
  BY <1>1, <1>3, <1>4 DEF TypeInv, Fields
<1>6. len \in Nat /\ len' = len + 1
  BY <1>1, <1>3 DEF TypeInv, Fields
<1>7. \A d \in Clients : Kept(d)' <=> (Kept(d) \/ d = c)
  BY <1>1, <1>3 DEF Kept, Listed, Using
<1>8. \A k \in 1..len : slots[k] # c
  BY <1>1, <1>2 DEF Exact, OnlyKept, Kept, Listed
<1>9. Distinct'
  BY <1>2, <1>5, <1>6, <1>8 DEF Exact, Distinct
<1>10. OnlyKept'
  BY <1>2, <1>5, <1>6, <1>7 DEF Exact, OnlyKept
<1>11. AllKept'
  <2> SUFFICES ASSUME NEW d \in Clients, Kept(d)' PROVE \E k \in 1..(len + 1) : slots'[k] = d
    BY <1>6 DEF AllKept
  <2>1. CASE d = c
    BY <2>1, <1>5, <1>6
  <2>2. CASE Kept(d)
    <3>1. PICK k \in 1..len : slots[k] = d
      BY <2>2, <1>2 DEF Exact, AllKept
    <3>2. k \in 1..(len + 1) /\ slots'[k] = d
      BY <3>1, <1>5, <1>6
    <3>3. QED
      BY <3>2
  <2>3. QED
    BY <2>1, <2>2, <1>7
<1>12. \A d \in Clients : ~Using(d)'
  BY <1>1, <1>3 DEF Using
<1>13. QED
  BY <1>9, <1>10, <1>11, <1>12 DEF Exact, OneUser, Storing, Removing, Using

\* Removing: handler ranges over the list as it was when the range started.
LEMMA RangeStartsList == ASSUME TypeInv, ListInv, NEW c \in Clients, RangeStarts(c)
                         PROVE  ListInv'
<1> SUFFICES ASSUME ~raced' PROVE Exact'
  BY DEF ListInv
<1>1. /\ handler[c] = "leave" /\ handler'[c] = "remove" /\ last'[c] = len /\ i'[c] = 1
      /\ UNCHANGED <<len, slots>>
      /\ \A d \in Clients \ {c} : handler'[d] = handler[d] /\ last'[d] = last[d]
  BY DEF RangeStarts, Goes, Put, TypeInv, Fields, Counters
<1>2. ~raced /\ \A d \in Clients \ {c} : ~Using(d)
  BY DEF RangeStarts, Races
<1>3. Exact
  BY <1>2 DEF ListInv
<1>4. \A d \in Clients : Kept(d)' <=> Kept(d)
  BY <1>1, <1>2 DEF Kept, Listed, Using
<1>5. OneUser' /\ Distinct' /\ OnlyKept' /\ AllKept'
  BY <1>1, <1>2, <1>3, <1>4 DEF Exact, OneUser, Distinct, OnlyKept, AllKept, Using
<1>6. Ahead(c)'
  BY <1>1, <1>3 DEF Exact, AllKept, Kept, Listed, Ahead
<1>7. \A d \in Clients : Storing(d)' /\ Removing(d)'
  BY <1>1, <1>2, <1>6 DEF Storing, Removing, Using
<1>8. QED
  BY <1>5, <1>7 DEF Exact

\* A step of the range never panics: what is found is in the list.
LEMMA FoundIsListed == ASSUME TypeInv, ListInv, NEW c \in Clients, RangeStep(c), ~raced,
                              slots[i[c]] = c
                       PROVE  Ahead(c) /\ i[c] <= len
<1>1. Removing(c) /\ handler[c] = "remove" /\ i[c] <= last[c]
  BY DEF RangeStep, ListInv, Exact
<1>2. i[c] \in Nat /\ last[c] \in Nat /\ len \in Nat
  BY DEF TypeInv, Fields, Counters
<1>3. QED
  BY <1>1, <1>2 DEF Removing, Ahead, Behind

LEMMA RangeStepList == ASSUME TypeInv, ListInv, NEW c \in Clients, RangeStep(c)
                       PROVE  ListInv'
<1> SUFFICES ASSUME ~raced' PROVE Exact'
  BY DEF ListInv
<1>1. /\ handler[c] = "remove" /\ i[c] <= last[c] /\ i'[c] = i[c] + 1
      /\ UNCHANGED <<raced, handler, last>> /\ ~raced
  BY DEF RangeStep, TypeInv, Counters
<1>2. Exact
  BY <1>1 DEF ListInv
<1>3. \A d \in Clients \ {c} : ~Using(d)
  BY <1>1, <1>2 DEF Exact, OneUser, Using
<1>4. len \in Nat /\ i[c] \in Nat /\ last[c] \in Nat /\ i[c] >= 1
  BY <1>1 DEF TypeInv, Fields, Counters, Bounded
<1>5. Removing(c)
  BY <1>2 DEF Exact
<1>6. OneUser'
  BY <1>1, <1>2 DEF Exact, OneUser, Using
<1>7. \A d \in Clients : Storing(d)'
  BY <1>1, <1>3 DEF Storing, Using
<1>8. CASE slots[i[c]] # c
  <2>1. UNCHANGED <<len, slots>>
    BY <1>8 DEF RangeStep
  <2>2. \A d \in Clients : Kept(d)' <=> Kept(d)
    BY <1>1, <2>1 DEF Kept, Listed
  <2>3. Distinct' /\ OnlyKept' /\ AllKept'
    BY <1>2, <2>1, <2>2 DEF Exact, Distinct, OnlyKept, AllKept
  <2>4. CASE Ahead(c)
    <3>1. PICK k \in i[c]..len : slots[k] = c
      BY <2>4 DEF Ahead
    <3>2. k \in (i[c] + 1)..len
      BY <3>1, <1>4, <1>8
    <3>3. Ahead(c)'
      BY <3>1, <3>2, <2>1, <2>4, <1>1 DEF Ahead
    <3>4. QED
      BY <3>3, <2>3, <1>6, <1>7, <1>1, <1>3 DEF Exact, Removing, Using
  <2>5. CASE Behind(c)
    <3>1. Behind(c)'
      BY <2>5, <2>1, <1>1, <1>4 DEF Behind
    <3>2. QED
      BY <3>1, <2>3, <1>6, <1>7, <1>1, <1>3 DEF Exact, Removing, Using
  <2>6. QED
    BY <2>4, <2>5, <1>1, <1>5 DEF Removing
<1>9. CASE slots[i[c]] = c
  <2>1. last[c] = len /\ i[c] <= len /\ i[c] \in 1..len
    BY <1>1, <1>4, <1>9, FoundIsListed DEF Ahead
  <2>2. slots' = MovedDown(i[c]) /\ len' = len - 1
    BY <2>1, <1>4, <1>9 DEF RangeStep
  <2>3. len <= Cardinality(Clients) /\ Cardinality(Clients) \in Nat
    BY AppendedFinite, <1>4 DEF TypeInv, Bounded
  <2>4. \A k \in 1..len : slots'[k] = IF k \in i[c]..(len - 1) THEN slots[k + 1] ELSE slots[k]
    BY <2>2, <2>3, <1>4 DEF MovedDown, TypeInv, Fields
  <2> DEFINE was(k) == IF k < i[c] THEN k ELSE k + 1
  <2>5. \A k \in 1..(len - 1) : was(k) \in 1..len /\ was(k) # i[c] /\ slots'[k] = slots[was(k)]
    BY <2>4, <2>1, <1>4
  <2>6. \A j, k \in 1..(len - 1) : was(j) = was(k) => j = k
    BY <1>4
  <2>7. \A k \in 1..len : slots[k] = c => k = i[c]
    BY <2>1, <1>9, <1>2 DEF Exact, Distinct
  <2>8. \A d \in Clients : Kept(d)' <=> (Kept(d) /\ d # c)
    BY <1>1, <1>3, <1>4, <2>1, <2>2 DEF Kept, Listed, Using
  <2> HIDE DEF was
  <2>9. Distinct'
    BY <2>2, <2>5, <2>6, <1>2 DEF Exact, Distinct
  <2>10. OnlyKept'
    BY <2>2, <2>5, <2>7, <2>8, <1>2 DEF Exact, OnlyKept
  <2>11. AllKept'
    <3> SUFFICES ASSUME NEW d \in Clients, Kept(d), d # c
                 PROVE  \E k \in 1..(len - 1) : slots'[k] = d
      BY <2>2, <2>8 DEF AllKept
    <3>1. PICK k \in 1..len : slots[k] = d
      BY <1>2 DEF Exact, AllKept
    <3>2. k # i[c]
      BY <3>1, <1>9
    <3>3. CASE k < i[c]
      BY <3>1, <3>3, <2>1, <2>4, <1>4
    <3>4. CASE k > i[c]
      <4>1. k - 1 \in 1..(len - 1) /\ k - 1 \in i[c]..(len - 1) /\ k - 1 \in 1..len
        BY <3>1, <3>4, <2>1, <1>4
      <4>2. slots'[k - 1] = slots[(k - 1) + 1] /\ (k - 1) + 1 = k
        BY <4>1, <2>4
      <4>3. QED
        BY <4>1, <4>2, <3>1
    <3>5. QED
      BY <3>2, <3>3, <3>4, <1>4
  <2>12. Behind(c)'
    <3> SUFFICES ASSUME NEW k \in (i[c] + 1)..len PROVE slots'[k] # c
      BY <2>1, <2>2, <1>1, <1>4 DEF Behind
    <3>1. k \in 1..len /\ k # i[c] /\ k > i[c]
      BY <1>4
    <3>2. CASE k = len
      BY <3>1, <3>2, <2>4, <2>7, <1>4
    <3>3. CASE k <= len - 1
      BY <3>1, <3>3, <2>4, <2>7, <1>4
    <3>4. QED
      BY <3>1, <3>2, <3>3, <1>4
  <2>13. QED
    BY <2>9, <2>10, <2>11, <2>12, <1>6, <1>7, <1>1, <1>3 DEF Exact, Removing, Using
<1>10. QED
  BY <1>8, <1>9

LEMMA ReturnList == ASSUME TypeInv, ListInv, NEW c \in Clients, Return(c)
                    PROVE  ListInv'
<1> SUFFICES ASSUME ~raced' PROVE Exact'
  BY DEF ListInv
<1>1. /\ handler[c] = "remove" /\ i[c] > last[c] /\ handler'[c] = "returned"
      /\ UNCHANGED <<len, slots, raced>> /\ ~raced
      /\ \A d \in Clients \ {c} : handler'[d] = handler[d] /\ last'[d] = last[d]
  BY DEF Return, Goes, Put, TypeInv, Fields, Counters
<1>2. Exact
  BY <1>1 DEF ListInv
<1>3. \A d \in Clients \ {c} : ~Using(d)
  BY <1>1, <1>2 DEF Exact, OneUser, Using
<1>4. len \in Nat /\ i[c] \in Nat /\ last[c] \in Nat
  BY DEF TypeInv, Fields, Counters
<1>5. last[c] = len + 1
  BY <1>1, <1>2, <1>4 DEF Exact, Removing, Ahead, Behind
<1>6. \A d \in Clients : Kept(d)' <=> Kept(d)
  BY <1>1, <1>3, <1>4, <1>5 DEF Kept, Listed, Using
<1>7. \A d \in Clients : ~Using(d)'
  BY <1>1, <1>3 DEF Using
<1>8. Distinct' /\ OnlyKept' /\ AllKept'
  BY <1>1, <1>2, <1>6 DEF Exact, Distinct, OnlyKept, AllKept
<1>9. QED
  BY <1>7, <1>8 DEF Exact, OneUser, Storing, Removing, Using

LEMMA NextList == TypeInv /\ ListInv /\ [Next]_vars => ListInv'
<1> SUFFICES ASSUME TypeInv, ListInv, [Next]_vars PROVE ListInv'
  OBVIOUS
<1>h. /\ handler \in [Clients -> HandlerStates]
      /\ \A d \in Clients : client[d] = "new" <=> handler[d] = "none"
  BY DEF TypeInv, Fields, Bounded
<1>1. ASSUME NEW c \in Clients, Connect(c) PROVE ListInv'
  <2>1. UNCHANGED list /\ \A d \in Clients : Stage(handler'[d]) = Stage(handler[d])
    BY <1>1, <1>h DEF Connect, Stage, Goes, Put
  <2>2. QED
    BY <2>1, ListUntouched DEF list
<1>2. ASSUME NEW c \in Clients, Send(c) \/ CloseWrite(c) \/ Quit(c) PROVE ListInv'
  <2>1. UNCHANGED list /\ \A d \in Clients : Stage(handler'[d]) = Stage(handler[d])
    BY <1>2, <1>h DEF Send, CloseWrite, Quit, Stage, Goes, Put
  <2>2. QED
    BY <2>1, ListUntouched DEF list
<1>3. ASSUME NEW c \in Clients, ReadGreeting(c) PROVE ListInv'
  <2>1. UNCHANGED list /\ \A d \in Clients : Stage(handler'[d]) = Stage(handler[d])
    BY <1>3, <1>h DEF ReadGreeting, Stage, Goes, Put
  <2>2. QED
    BY <2>1, ListUntouched DEF list
<1>4. ASSUME NEW c \in Clients, ReadRequest(c) PROVE ListInv'
  <2>1. UNCHANGED list /\ \A d \in Clients : Stage(handler'[d]) = Stage(handler[d])
    BY <1>4, <1>h DEF ReadRequest, Stage, Goes, Put
  <2>2. QED
    BY <2>1, ListUntouched DEF list
<1>5. ASSUME NEW c \in Clients, HeadFails(c) \/ DialFails(c) \/ Dial(c) PROVE ListInv'
  <2>1. UNCHANGED list /\ \A d \in Clients : Stage(handler'[d]) = Stage(handler[d])
    BY <1>5, <1>h DEF HeadFails, DialFails, Dial, Stage, Goes, Put
  <2>2. QED
    BY <2>1, ListUntouched DEF list
<1>6. ASSUME NEW c \in Clients, DownRead(c) \/ DownWrite(c) \/ DownEnds(c) PROVE ListInv'
  <2>1. UNCHANGED list /\ \A d \in Clients : Stage(handler'[d]) = Stage(handler[d])
    BY <1>6, <1>h DEF DownRead, DownWrite, DownEnds, Stage, Goes, Put
  <2>2. QED
    BY <2>1, ListUntouched DEF list
<1>7. ASSUME NEW c \in Clients, netCopy(c) PROVE ListInv'
  <2>1. UNCHANGED list /\ \A d \in Clients : Stage(handler'[d]) = Stage(handler[d])
    BY <1>7, <1>h DEF netCopy, UpRead, UpWrite, UpEnds, Stage, Goes, Put
  <2>2. QED
    BY <2>1, ListUntouched DEF list
<1>8. ASSUME NEW c \in Clients, Say(c) \/ End(c) PROVE ListInv'
  <2>1. UNCHANGED list /\ \A d \in Clients : Stage(handler'[d]) = Stage(handler[d])
    BY <1>8, <1>h DEF Say, End, Stage, Goes, Put
  <2>2. QED
    BY <2>1, ListUntouched DEF list
<1>9. ASSUME UNCHANGED vars PROVE ListInv'
  BY <1>9, ListUntouched DEF vars, list
<1>11. ASSUME AcceptFails PROVE ListInv'
  BY <1>11, ListUntouched DEF AcceptFails
<1>10. QED
  BY <1>1, <1>2, <1>3, <1>4, <1>5, <1>6, <1>7, <1>8, <1>9, <1>11, AppendReadsList,
     AppendStoresList,
     RangeStartsList,
     RangeStepList, ReturnList
     DEF Next, Steps, handleConnection
-----------------------------------------------------------------------------
\* A list without duplicates is as long as the set of its elements.
LEMMA NoDuplicates == ASSUME TypeInv, Distinct PROVE len = Cardinality(Conns)
<1> DEFINE nth == [k \in 1..len |-> slots[k]]
<1>1. nth \in Bijection(1..len, Conns)
  BY DEF Conns, Distinct, Bijection, Injection, Surjection, IsInjective
<1>2. len \in Nat /\ IsFiniteSet(1..len) /\ Cardinality(1..len) = len
  BY FS_Interval DEF TypeInv, Fields
<1>3. ExistsBijection(1..len, Conns)
  BY <1>1 DEF ExistsBijection
<1>4. QED
  BY <1>2, <1>3, FS_Bijection

\* Why the process ends: with main, by the panic of a range that another handler
\* disturbed, of the slice of a long name, or of the log line of an unknown command.
LEMMA NextEnds == TypeInv /\ ListInv /\ EndsKnown /\ [Next]_vars => EndsKnown'
<1> SUFFICES ASSUME TypeInv, ListInv, EndsKnown, [Next]_vars PROVE EndsKnown'
  OBVIOUS
<1> USE DEF list, near, far, Goes, Put
<1>1. CASE UNCHANGED vars
  BY <1>1 DEF vars, EndsKnown
<1>2. ASSUME NEW c \in Clients, RangeStep(c), alive PROVE EndsKnown'
  <2>1. UNCHANGED <<raced, accepts, asks>>
    BY <1>2 DEF RangeStep
  <2>2. CASE raced
    BY <2>1, <2>2 DEF EndsKnown
  <2>3. CASE ~raced
    <3>1. ~(slots[i[c]] = c /\ i[c] > len)
      <4>1. i[c] \in Nat /\ len \in Nat
        BY DEF TypeInv, Fields, Counters
      <4>2. slots[i[c]] = c => i[c] <= len
        BY <1>2, <2>3, FoundIsListed
      <4>3. QED
        BY <4>1, <4>2
    <3>2. alive'
      BY <1>2, <3>1 DEF RangeStep
    <3>3. QED
      BY <3>2 DEF EndsKnown
  <2>4. QED
    BY <2>2, <2>3
<1>3. ASSUME NEW c \in Clients, ReadRequest(c), alive PROVE EndsKnown'
  <2>1. asks[c] \in Request /\ UNCHANGED <<asks, accepts, raced>>
    BY <1>3 DEF ReadRequest, TypeInv, Fields
  <2>2. \A l \in 0..255 : ~SliceInBounds(l) => l > 250
    BY DEF SliceInBounds
  <2>3. ~alive' => LogPanics(c) \/ (asks[c].type = 3 /\ ~SliceInBounds(asks[c].name))
    BY <1>3 DEF ReadRequest
  <2>4. asks[c].name \in 0..255
    BY <2>1 DEF Request
  <2>5. QED
    BY <2>1, <2>2, <2>3, <2>4 DEF EndsKnown, LogPanics
<1>4. ASSUME NEW c \in Clients, alive, Steps(c), ~RangeStep(c), ~ReadRequest(c) PROVE EndsKnown'
  <2>1. UNCHANGED alive
    BY <1>4 DEF Steps, handleConnection, netCopy, Connect, Send, CloseWrite, Quit, AppendReads,
       AppendStores, RangeStarts, Return, ReadGreeting, HeadFails, Dial, DialFails, DownRead,
       DownWrite, DownEnds, UpRead, UpWrite, UpEnds, Say, End
  <2>2. QED
    BY <1>4, <2>1 DEF EndsKnown
<1>6. CASE AcceptFails
  BY <1>6 DEF AcceptFails, EndsKnown
<1>5. QED
  BY <1>1, <1>2, <1>3, <1>4, <1>6 DEF Next
-----------------------------------------------------------------------------
\* The type invariant, for any number of clients: Conns never grows beyond them, even
\* when handlers race for it, and nothing is taken or read that was not sent.
THEOREM TypesKept == Spec => []TypeOK
<1>1. TypeInv /\ SessionInv => TypeOK
  <2>1. ASSUME TypeInv PROVE len \in 0..Cardinality(Clients)
    BY <2>1, AppendedFinite DEF TypeInv, Fields, Bounded
  <2>2. QED
    BY <2>1 DEF TypeInv, Fields, SessionInv, Session, Waits, TypeOK
<1>2. QED
  BY InitType, NextType, InitSession, NextSession, <1>1, PTL DEF Spec

\* Conns holds exactly the connections being handled, each once, as long as no two
\* handlers were changing it at the same time, however many there are.
THEOREM ListIsExact == Spec => []ConnsExact
<1>1. ListInv /\ TypeInv => ConnsExact
  <2> SUFFICES ASSUME ListInv, TypeInv, ~raced, \A c \in Clients : handler[c] # "remove"
               PROVE  Conns = {c \in Clients : Listed(c)} /\ len = Cardinality(Conns)
    BY DEF ConnsExact
  <2>1. \A c \in Clients : Kept(c) <=> Listed(c)
    BY DEF Kept
  <2>2. Conns = {c \in Clients : Listed(c)}
    BY <2>1 DEF ListInv, Exact, OnlyKept, AllKept, Conns
  <2>3. len = Cardinality(Conns)
    BY NoDuplicates DEF ListInv, Exact
  <2>4. QED
    BY <2>2, <2>3
<1>2. QED
  BY InitType, NextType, InitList, NextList, <1>1, PTL DEF Spec

\* The proxy ends only when Accept failed, when two handlers were changing Conns at the
\* same time, or for a request with a name of more than 250 characters or, with -v, an
\* unknown command, whatever bytes the clients send.
THEOREM EndIsKnown == Spec => []EndsKnown
<1>1. Init => EndsKnown
  BY DEF Init, EndsKnown
<1>2. QED
  BY InitType, NextType, InitList, NextList, NextEnds, <1>1, PTL DEF Spec

\* What a remote host says before it closes reaches a client that still reads before
\* its connection is closed, and what reaches the remote host is what the client has
\* sent after its request, for any amounts and any division of them into reads.
THEOREM AllPassedOn == Spec => []NothingLost
<1>1. SessionInv => NothingLost
  BY DEF SessionInv, Session, Downstream, Upstream, NothingLost
<1>2. QED
  BY InitType, NextType, InitSession, NextSession, <1>1, PTL DEF Spec

\* A client that waits for the replies and asks for what the proxy supports is not
\* turned away before its whole request was read.
THEOREM AcceptableAdmitted == Spec => []NotTurnedAway
<1>1. SessionInv => NotTurnedAway
  BY DEF SessionInv, Session, Admitted, NotTurnedAway
<1>2. QED
  BY InitType, NextType, InitSession, NextSession, <1>1, PTL DEF Spec
=============================================================================
