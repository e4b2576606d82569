----------------------------- MODULE SocksProxy -----------------------------
(***************************************************************************)
(* socks/socks.go: a SOCKS5 proxy with a goroutine per client, handler,    *)
(* and one more, up, that copies from the client to the remote host while  *)
(* handler copies the other way.  All handlers keep the global list Conns, *)
(* without a lock; it is modelled by its length and the array under it,    *)
(* large enough that append does not move it.  The greeting and the        *)
(* request of a client are three units of data each, of which the first    *)
(* two stand for the fields that are read first; a Read returns any number *)
(* of the units that are there.  Clients and remote hosts are external;    *)
(* those that are still there read, so that a Write does not wait.         *)
(***************************************************************************)
EXTENDS Naturals, FiniteSets, Functions

CONSTANTS Clients,
          Requests,  \* what each client may ask for, see Request
          Verbose,   \* -v is given
          MaxUp,     \* bound: units clients send after their requests, together
          MaxDown    \* bound: units remote hosts send, together

\* The fields of the greeting and of the request that are looked at, and how the client
\* behaves: it stays, may leave, or sends the request without waiting.
Request == [ver : 0..255, reqVer : 0..255, cmd : 0..255, type : 0..255, name : 0..255,
            way : {"stays", "leaves", "eager"}]
ASSUME SocksAssumption == /\ IsFiniteSet(Clients)
                          /\ Requests \in [Clients -> SUBSET Request]
                          /\ Verbose \in BOOLEAN
                          /\ MaxUp \in Nat /\ MaxDown \in Nat

VARIABLES
  alive,    \* the process runs; a panic in any goroutine ends it, and so does main
  accepts,  \* main is in its loop: Accept has not failed
  len, slots,  \* Conns
  raced,    \* history: a handler used Conns while another was changing it
  handler,  \* where handleConnection is, see HandlerStates
  i, last,  \* its index in Conns and the length it ranges over
  n,        \* units it has of the greeting, the request, or from the remote host
  up, held, \* the other goroutine, and the units it has read and not written
  client,   \* "new", "open", "half" once it will send no more, or "gone"
  asks,     \* its request
  sent, taken,  \* units it has sent, and those that were read
  reply,    \* the last reply it was sent
  got,      \* units of the remote host it has received
  remote,   \* "none", "up", "ended" once it has closed, or "closed" by the proxy
  said, arrived, \* units it has sent, and received
  left      \* those it has sent that were not read

list == <<len, slots, raced, i, last, accepts>>
far == <<remote, said, arrived, left>>
near == <<client, asks, sent, got>>
vars == <<alive, list, handler, n, up, held, near, taken, reply, far>>

HandlerStates == {"none", "append", "store", "greet", "request", "dial", "read", "write",
                  "leave", "remove", "returned"}
None == [ver |-> 5, reqVer |-> 5, cmd |-> 1, type |-> 1, name |-> 0, way |-> "leaves"]
First == 2     \* units of what is read first
Whole == 3     \* units of a greeting, and of a request
Empty == "empty"
Zeros == [c \in Clients |-> 0]

Init == /\ alive = TRUE /\ accepts = TRUE /\ raced = FALSE
        /\ len = 0 /\ slots = [k \in 1..Cardinality(Clients) |-> Empty]
        /\ client = [c \in Clients |-> "new"] /\ asks = [c \in Clients |-> None]
        /\ handler = [c \in Clients |-> "none"] /\ up = [c \in Clients |-> "none"]
        /\ reply = [c \in Clients |-> "none"] /\ remote = [c \in Clients |-> "none"]
        /\ i = Zeros /\ last = Zeros /\ n = Zeros /\ held = Zeros /\ sent = Zeros
        /\ taken = Zeros /\ got = Zeros /\ said = Zeros /\ arrived = Zeros /\ left = Zeros

Put(f, c, v) == [f EXCEPT ![c] = v]
Goes(c, pc) == handler' = Put(handler, c, pc)
-----------------------------------------------------------------------------
(* The client. *)
Connect(c) == /\ client[c] = "new"
              /\ client' = Put(client, c, "open")
              /\ asks' \in {Put(asks, c, r) : r \in Requests[c]}
              /\ Goes(c, "append")
              /\ UNCHANGED <<alive, list, n, up, held, sent, got, taken, reply, far>>

\* A client waits for the reply to what it has sent; an eager one does not wait for
\* the first.
MaySend(c) == \/ sent[c] = 0
              \/ sent[c] = Whole /\ (asks[c].way = "eager" \/ reply[c] = "method")
              \/ sent[c] >= 2 * Whole /\ reply[c] = "connected"

Payload(f) == Cardinality({c \in Clients : f[c] > 2 * Whole})

Send(c) == /\ client[c] = "open" /\ handler[c] # "returned"
           /\ MaySend(c)
           /\ sent' = [sent EXCEPT ![c] = @ + IF @ < 2 * Whole THEN Whole ELSE 1]
           /\ sent'[c] > 2 * Whole => Payload(sent) < MaxUp
           /\ UNCHANGED <<alive, list, handler, n, up, held, client, asks, got, taken, reply, far>>

MayLeave(c) == asks[c].way # "stays" /\ handler[c] # "returned"

CloseWrite(c) == /\ client[c] = "open" /\ MayLeave(c)
                 /\ client' = Put(client, c, "half")
                 /\ UNCHANGED <<alive, list, handler, n, up, held, asks, sent, got, taken, reply, far>>

Quit(c) == /\ client[c] \in {"open", "half"} /\ MayLeave(c)
           /\ client' = Put(client, c, "gone")
           /\ UNCHANGED <<alive, list, handler, n, up, held, asks, sent, got, taken, reply, far>>

\* A read of the connection fails: at the end of what was sent, or by a reset.
ReadFails(c) == \/ client[c] = "half" /\ taken[c] = sent[c]
                \/ client[c] = "gone"
There(c) == 1..(sent[c] - taken[c])
-----------------------------------------------------------------------------
(* The list Conns.  Between reading its header and storing it, or while    *)
(* ranging over it, a handler relies on nobody else changing it.           *)
Using(c) == handler[c] \in {"store", "remove"}
Races(c) == raced \/ \E d \in Clients \ {c} : Using(d)

AppendReads(c) == /\ handler[c] = "append"
                  /\ last' = Put(last, c, len)
                  /\ raced' = Races(c)
                  /\ Goes(c, "store")
                  /\ UNCHANGED <<alive, accepts, len, slots, i, n, up, held, near, taken, reply, far>>

AppendStores(c) == /\ handler[c] = "store"
                   /\ slots' = [slots EXCEPT ![last[c] + 1] = c]
                   /\ len' = last[c] + 1
                   /\ last' = Put(last, c, 0)
                   /\ Goes(c, "greet")
                   /\ UNCHANGED <<alive, accepts, raced, i, n, up, held, near, taken, reply, far>>

RangeStarts(c) == /\ handler[c] = "leave"
                  /\ i' = Put(i, c, 1) /\ n' = Put(n, c, 0)
                  /\ last' = Put(last, c, len)
                  /\ raced' = Races(c)
                  /\ Goes(c, "remove")
                  /\ UNCHANGED <<alive, accepts, len, slots, up, held, near, taken, reply, far>>

\* append(Conns[:k], Conns[k+1:]...): the elements after k move down by one.
\* Fault: the last one does not.
Stays(k) == [j \in DOMAIN slots |-> IF j \in k..(len - 2) THEN slots[j + 1] ELSE slots[j]]
MovedDown(k) == [j \in DOMAIN slots |-> IF j \in k..(len - 1) THEN slots[j + 1] ELSE slots[j]]

\* Conns[i+1:] panics when the list has become shorter than the index.
RangeStep(c) == /\ handler[c] = "remove" /\ i[c] <= last[c]
                /\ IF slots[i[c]] # c THEN UNCHANGED <<alive, len, slots>>
                   ELSE IF i[c] > len THEN alive' = FALSE /\ UNCHANGED <<len, slots>>
                   ELSE slots' = MovedDown(i[c]) /\ len' = len - 1 /\ UNCHANGED alive
                /\ i' = [i EXCEPT ![c] = @ + 1]
                /\ UNCHANGED <<accepts, raced, last, handler, n, up, held, near, taken, reply, far>>

\* The range is over and the connection is closed.
Return(c) == /\ handler[c] = "remove" /\ i[c] > last[c]
             /\ Goes(c, "returned")
             /\ i' = Put(i, c, 0) /\ last' = Put(last, c, 0)
             /\ UNCHANGED <<alive, accepts, len, slots, raced, n, up, held, near, taken, reply, far>>
-----------------------------------------------------------------------------
(* handShake and parseTarget.  ReadAtLeast takes whatever is there, until  *)
(* it has the head; ReadFull then takes no more than what is missing.      *)
Reads(c) == {k \in There(c) : n[c] >= First => n[c] + k <= Whole}

\* A part of the message is no error.  Fault: it is when the head came alone.
PartFails(m) == m # Whole
PartIsNoError(m) == m > Whole

\* errVer, errAuthExtraData.
GreetingFails(c, m) == asks[c].ver # 5 \/ PartIsNoError(m)

ReadGreeting(c) ==
  /\ handler[c] = "greet"
  /\ \E k \in Reads(c) :
       LET m == n[c] + k IN
         /\ taken' = Put(taken, c, taken[c] + k)
         /\ IF m < First THEN n' = Put(n, c, m) /\ UNCHANGED <<handler, reply>>
            ELSE IF GreetingFails(c, m) THEN Goes(c, "leave") /\ UNCHANGED <<n, reply>>
            ELSE IF m < Whole THEN n' = Put(n, c, m) /\ UNCHANGED <<handler, reply>>
            ELSE /\ n' = Put(n, c, 0)
                 /\ \/ reply' = Put(reply, c, "method") /\ Goes(c, "request")
                    \/ client[c] = "gone" /\ Goes(c, "leave") /\ UNCHANGED reply
  /\ UNCHANGED <<alive, list, up, held, near, far>>

\* errVer, errCmd, errAddrType, errReqExtraData.
RequestFails(c, m) == \/ asks[c].reqVer # 5 \/ asks[c].cmd # 1
                      \/ asks[c].type \notin {1, 3, 4} \/ PartIsNoError(m)

\* Commands[buf[idCmd]-1] in the log line of -v, after the check of the version.
LogPanics(c) == Verbose /\ asks[c].reqVer = 5 /\ asks[c].cmd \notin 1..3

\* buf[idDm0 : idDm0+buf[idDmLen]]: the sum is a byte.  Fault: a signed one.
Signed(l) == 5 + l < 128
SliceInBounds(l) == (5 + l) % 256 >= 5

ReadRequest(c) ==
  /\ handler[c] = "request"
  /\ \E k \in Reads(c) :
       LET m == n[c] + k IN
         /\ taken' = Put(taken, c, taken[c] + k)
         /\ IF m >= First /\ LogPanics(c) THEN alive' = FALSE /\ UNCHANGED <<handler, n>>
            ELSE IF m >= First /\ RequestFails(c, m)
              THEN Goes(c, "leave") /\ UNCHANGED <<alive, n>>
            ELSE IF m < Whole THEN n' = Put(n, c, m) /\ UNCHANGED <<alive, handler>>
            ELSE IF asks[c].type = 3 /\ ~SliceInBounds(asks[c].name)
              THEN alive' = FALSE /\ UNCHANGED <<handler, n>>
            ELSE Goes(c, "dial") /\ n' = Put(n, c, 0) /\ UNCHANGED alive
  /\ UNCHANGED <<list, up, held, near, reply, far>>

HeadFails(c) == /\ handler[c] \in {"greet", "request"}
                /\ ReadFails(c)
                /\ Goes(c, "leave")
                /\ UNCHANGED <<alive, list, n, up, held, near, taken, reply, far>>
-----------------------------------------------------------------------------
(* pipeWhenClose. *)
Dial(c) == /\ handler[c] = "dial"
           /\ remote' = Put(remote, c, "up")
           /\ reply' = Put(reply, c, "connected")
           /\ Goes(c, "read")
           /\ up' = Put(up, c, "read")
           /\ UNCHANGED <<alive, list, n, held, near, taken, said, arrived, left>>

\* Refused, or the time-out of 15 seconds: the client gets no reply.
DialFails(c) == /\ handler[c] = "dial"
                /\ Goes(c, "leave")
                /\ UNCHANGED <<alive, list, n, up, held, near, taken, reply, far>>

DownRead(c) == /\ handler[c] = "read"
               /\ \E k \in 1..left[c] : /\ n' = Put(n, c, k)
                                        /\ left' = Put(left, c, left[c] - k)
               /\ Goes(c, "write")
               /\ UNCHANGED <<alive, list, up, held, near, taken, reply, remote, said, arrived>>

\* An error of the write is ignored, here and in UpWrite.
DownWrite(c) == /\ handler[c] = "write"
                /\ got' = IF client[c] = "gone" THEN got ELSE Put(got, c, got[c] + n[c])
                /\ n' = Put(n, c, 0)
                /\ Goes(c, "read")
                /\ UNCHANGED <<alive, list, up, held, client, asks, sent, taken, reply, far>>

\* Handler copies until the remote host closes.  Fault: until either side does.
EitherEnds(c) == (remote[c] = "ended" /\ left[c] = 0) \/ up[c] = "done"
RemoteEnds(c) == remote[c] = "ended" /\ left[c] = 0

DownEnds(c) == /\ handler[c] = "read"
               /\ RemoteEnds(c)
               /\ remote' = Put(remote, c, "closed")
               /\ Goes(c, "leave")
               /\ UNCHANGED <<alive, list, n, up, held, near, taken, reply, said, arrived, left>>

UpRead(c) == /\ up[c] = "read" /\ handler[c] # "returned"
             /\ \E k \in There(c) : /\ held' = Put(held, c, k)
                                    /\ taken' = Put(taken, c, taken[c] + k)
             /\ up' = Put(up, c, "write")
             /\ UNCHANGED <<alive, list, handler, n, near, reply, far>>

UpWrite(c) == /\ up[c] = "write"
              /\ arrived' = IF remote[c] = "up" THEN Put(arrived, c, arrived[c] + held[c])
                                                ELSE arrived
              /\ held' = Put(held, c, 0)
              /\ up' = Put(up, c, "read")
              /\ UNCHANGED <<alive, list, handler, n, near, taken, reply, remote, said, left>>

\* The client has closed, or handler has closed the connection.
\* Fault: handler does not.
OnlyByClient(c) == ReadFails(c)
UpReadFails(c) == ReadFails(c) \/ handler[c] = "returned"

UpEnds(c) == /\ up[c] = "read"
             /\ UpReadFails(c)
             /\ up' = Put(up, c, "done")
             /\ UNCHANGED <<alive, list, handler, n, held, near, taken, reply, far>>
-----------------------------------------------------------------------------
(* The remote host. *)
Say(c) == /\ remote[c] = "up" /\ SumFunction(said) < MaxDown
          /\ said' = Put(said, c, said[c] + 1)
          /\ left' = Put(left, c, left[c] + 1)
          /\ UNCHANGED <<alive, list, handler, n, up, held, near, taken, reply, remote, arrived>>

End(c) == /\ remote[c] = "up"
          /\ remote' = Put(remote, c, "ended")
          /\ UNCHANGED <<alive, list, handler, n, up, held, near, taken, reply, said, arrived, left>>
-----------------------------------------------------------------------------
handleConnection(c) ==
  \/ AppendReads(c) \/ AppendStores(c) \/ ReadGreeting(c) \/ ReadRequest(c) \/ HeadFails(c)
  \/ Dial(c) \/ DialFails(c) \/ DownRead(c) \/ DownWrite(c) \/ DownEnds(c)
  \/ RangeStarts(c) \/ RangeStep(c) \/ Return(c)
netCopy(c) == UpRead(c) \/ UpWrite(c) \/ UpEnds(c)

\* main returns, whatever its goroutines are doing.
AcceptFails == /\ accepts' = FALSE
               /\ alive' = FALSE
               /\ UNCHANGED <<len, slots, raced, i, last, handler, n, up, held, near, taken,
                              reply, far>>

Steps(c) == \/ Connect(c) \/ Send(c) \/ CloseWrite(c) \/ Quit(c)
            \/ handleConnection(c) \/ netCopy(c)
            \/ Say(c) \/ End(c)

Next == alive /\ (AcceptFails \/ \E c \in Clients : Steps(c))

Spec == Init /\ [][Next]_vars

\* Goroutines run; clients and remote hosts send and leave as they please.
FairSpec == Spec /\ \A c \in Clients : /\ WF_vars(alive /\ handleConnection(c))
                                       /\ WF_vars(alive /\ netCopy(c))
-----------------------------------------------------------------------------
\* The type invariant.
TypeOK == /\ alive \in BOOLEAN /\ accepts \in BOOLEAN /\ raced \in BOOLEAN
          /\ len \in 0..Cardinality(Clients)
          /\ slots \in [1..Cardinality(Clients) -> Clients \union {Empty}]
          /\ handler \in [Clients -> HandlerStates]
          /\ up \in [Clients -> {"none", "read", "write", "done"}]
          /\ client \in [Clients -> {"new", "open", "half", "gone"}]
          /\ remote \in [Clients -> {"none", "up", "ended", "closed"}]
          /\ \A c \in Clients : taken[c] <= sent[c] /\ left[c] <= said[c]

Listed(c) == handler[c] \notin {"none", "append", "store", "returned"}
Conns == {slots[k] : k \in 1..len}

\* Conns holds exactly the connections being handled, each once, as long as no
\* two handlers were changing it at the same time.
ConnsExact ==
  (alive /\ ~raced /\ \A c \in Clients : handler[c] # "remove") =>
    Conns = {c \in Clients : Listed(c)} /\ len = Cardinality(Conns)

\* The proxy ends only when Accept failed, when two handlers were changing Conns at the
\* same time, or by the request of a client: one with a name of more than 250 characters,
\* or, with -v, one with an unknown command.
EndsKnown == ~alive => \/ ~accepts \/ raced
                       \/ \E c \in Clients : asks[c].type = 3 /\ asks[c].name > 250
                       \/ Verbose /\ \E c \in Clients :
                            asks[c].reqVer = 5 /\ asks[c].cmd \notin 1..3

\* What a remote host says before it closes reaches a client that still reads,
\* even one that has itself stopped sending, before its connection is closed; and
\* what reaches the remote host is what the client has sent after its request.
NothingLost ==
  \A c \in Clients :
    /\ (handler[c] = "returned" /\ client[c] # "gone") => got[c] = said[c]
    /\ remote[c] = "up" => arrived[c] + held[c] + 2 * Whole = taken[c]

\* However the network divides what it sends, a client that waits for the replies
\* and asks for what the proxy supports is not turned away before its whole request
\* was read: it can fail only at the dial.
Acceptable(c) == /\ asks[c].ver = 5 /\ asks[c].reqVer = 5 /\ asks[c].cmd = 1
                 /\ asks[c].type \in {1, 3, 4} /\ asks[c].way # "eager"
NotTurnedAway == \A c \in Clients :
  (Acceptable(c) /\ client[c] = "open" /\ handler[c] \in {"leave", "remove", "returned"})
    => taken[c] >= 2 * Whole

\* When the remote host has closed, the session ends with both its goroutines,
\* whether the client is gone or still there, and then reads.
Released == \A c \in Clients :
  remote[c] = "ended" ~> (handler[c] = "returned" /\ up[c] = "done") \/ ~alive
=============================================================================
