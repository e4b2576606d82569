------------------------------ MODULE EchoProxy ------------------------------
(***************************************************************************)
(* websocket_proxy/server.go relays between a websocket and a TCP          *)
(* connection to its peer, which by the default addresses of both is       *)
(* tcp/echo/server.go.  The proxy runs two goroutines per session: handler *)
(* forwards the messages of the client, and the goroutine it starts, here  *)
(* back, brings the answers.  The echo server serves every connection with *)
(* a goroutine of its own, and all of them with the one buffer buff.  A    *)
(* message is one unit of data; a Read returns any number of units that    *)
(* are there and fit, and a Write waits until a connection, which takes    *)
(* Room units, has room: no write has a deadline.  The client and the      *)
(* transport are external.                                                 *)
(***************************************************************************)
EXTENDS Naturals, Sequences, FiniteSets, SequencesExt

CONSTANTS Sessions,
          BufSize,  \* size of the buffers, in units
          Zero,     \* an empty unit of a buffer
          Room,     \* what a TCP connection takes that nobody has read yet, in units
          MaxMsgs   \* bound: messages the clients send, together

ASSUME ProxyAssumption == /\ BufSize \in Nat \ {0} /\ MaxMsgs \in Nat
                          /\ Room \in Nat /\ Room >= BufSize
                          /\ Zero \notin Sessions \X Nat

VARIABLES
  client,    \* the client: "new", "open", "deaf" once it reads no more, though it may go
             \* on sending, or "gone" once it closed or was lost
  sent,      \* messages it has sent
  got,       \* what it has received, without the empty rest of each buffer
  handler,   \* where handler is, see HandlerStates
  back,      \* where its goroutine is, see BackStates
  canceled,  \* the context of the session
  held,      \* what back has read and not written yet
  tcp,       \* the proxy's connection to its peer
  ws,        \* data on the way from the client, what handler copies included
  out, in,   \* data on the way: proxy to peer, peer to proxy
  peer,      \* where handleConn of the echo server is
  n,         \* the length handleConn has read
  buff,      \* the buffer of the echo server
  peerUp,    \* the echo server runs
  mixed      \* history: buff was overwritten between Read and Write of handleConn

proxy == <<handler, back, canceled, held, tcp>>
echo == <<peer, n, buff, peerUp, mixed>>
proxyVars == <<client, sent, got, proxy, ws, out, in, echo>>

Units == (Sessions \X (1..MaxMsgs)) \union {Zero}
Sent(s) == [i \in 1..sent[s] |-> <<s, i>>]

\* A buffer without its empty rest.
Used(q) == {i \in DOMAIN q : q[i] # Zero}
Filled(q) == SubSeq(q, 1, Cardinality(Used(q)))

\* dial: in net.Dial; read: in ReadMessage; copy: in io.Copy; check: at the select;
\* wait: in wg.Wait.
HandlerStates == {"none", "dial", "read", "copy", "check", "wait", "returned"}
\* check: at the select; read: in Read; write: in WriteMessage.
BackStates == {"none", "check", "read", "write", "done"}

ProxyInit == /\ client = [s \in Sessions |-> "new"]
             /\ sent = [s \in Sessions |-> 0]
             /\ got = [s \in Sessions |-> <<>>]
             /\ handler = [s \in Sessions |-> "none"]
             /\ back = [s \in Sessions |-> "none"]
             /\ canceled = [s \in Sessions |-> FALSE]
             /\ held = [s \in Sessions |-> <<>>]
             /\ tcp = [s \in Sessions |-> "none"]
             /\ ws = [s \in Sessions |-> <<>>]
             /\ out = [s \in Sessions |-> <<>>]
             /\ in = [s \in Sessions |-> <<>>]
             /\ peer = [s \in Sessions |-> "none"]
             /\ n = [s \in Sessions |-> 0]
             /\ buff = [i \in 1..BufSize |-> Zero]
             /\ peerUp = TRUE
             /\ mixed = [s \in Sessions |-> FALSE]

HandlerGoes(s, pc) == handler' = [handler EXCEPT ![s] = pc]
BackGoes(s, pc) == back' = [back EXCEPT ![s] = pc]

\* How many units a Read can return.
Lengths(q) == {k \in 1..Len(q) : k <= BufSize}
Rest(q, k) == SubSeq(q, k + 1, Len(q))
-----------------------------------------------------------------------------
Upgrade(s) == /\ client[s] = "new"
              /\ client' = [client EXCEPT ![s] = "open"]
              /\ HandlerGoes(s, "dial")
              /\ UNCHANGED <<sent, got, back, canceled, held, tcp, ws, out, in, echo>>

Say(s) == /\ client[s] \in {"open", "deaf"}
          /\ handler[s] # "returned"
          /\ SumFunction(sent) < MaxMsgs
          /\ sent' = [sent EXCEPT ![s] = @ + 1]
          /\ ws' = [ws EXCEPT ![s] = Append(@, <<s, sent'[s]>>)]
          /\ UNCHANGED <<client, got, proxy, out, in, echo>>

\* What the connection to the client takes is full, and it does not read.
Deafen(s) == /\ client[s] = "open"
             /\ client' = [client EXCEPT ![s] = "deaf"]
             /\ UNCHANGED <<sent, got, proxy, ws, out, in, echo>>

Quit(s) == /\ client[s] \in {"open", "deaf"}
           /\ client' = [client EXCEPT ![s] = "gone"]
           /\ UNCHANGED <<sent, got, proxy, ws, out, in, echo>>
-----------------------------------------------------------------------------
Dial(s) == /\ handler[s] = "dial"
           /\ peerUp
           /\ tcp' = [tcp EXCEPT ![s] = "up"]
           /\ peer' = [peer EXCEPT ![s] = "read"]
           /\ HandlerGoes(s, "read")
           /\ BackGoes(s, "check")
           /\ UNCHANGED <<client, sent, got, canceled, held, ws, out, in, n, buff, peerUp, mixed>>

\* The error is ignored: the deferred Close of a nil connection panics.
DialFails(s) == /\ handler[s] = "dial"
                /\ ~peerUp
                /\ HandlerGoes(s, "returned")
                /\ ws' = [ws EXCEPT ![s] = <<>>]
                /\ UNCHANGED <<client, sent, got, back, canceled, held, tcp, out, in, echo>>

ReadMessage(s) == /\ handler[s] = "read"
                  /\ ws[s] # <<>>
                  /\ HandlerGoes(s, "copy")
                  /\ UNCHANGED <<client, sent, got, back, canceled, held, tcp, ws, out, in,
                                 echo>>

\* io.Copy writes the message, or fails, which is ignored.
Forward(s) == /\ handler[s] = "copy"
              /\ tcp[s] = "up" => Len(out[s]) < Room
              /\ ws' = [ws EXCEPT ![s] = Tail(@)]
              /\ out' = IF tcp[s] = "up" THEN [out EXCEPT ![s] = Append(@, Head(ws[s]))]
                                         ELSE out
              /\ HandlerGoes(s, "check")
              /\ UNCHANGED <<client, sent, got, back, canceled, held, tcp, in, echo>>

\* Deferred: the connections are closed, and what they have received is dropped.
Return(s) == /\ HandlerGoes(s, "returned")
             /\ tcp' = [tcp EXCEPT ![s] = "closed"]
             /\ ws' = [ws EXCEPT ![s] = <<>>]
             /\ in' = [in EXCEPT ![s] = <<>>]

CheckDone(s) == /\ handler[s] = "check"
                /\ \/ canceled[s] /\ Return(s)
                   \/ ~canceled[s] /\ HandlerGoes(s, "read") /\ UNCHANGED <<tcp, ws, in>>
                /\ UNCHANGED <<client, sent, got, back, canceled, held, out, echo>>

\* Fault: handler leaves its loop and does not cancel.
NotCanceled(s) == canceled[s]
Canceled(s) == TRUE

ReadFails(s) == /\ handler[s] = "read"
                /\ client[s] = "gone"
                /\ canceled' = [canceled EXCEPT ![s] = Canceled(s)]
                /\ HandlerGoes(s, "wait")
                /\ UNCHANGED <<client, sent, got, back, held, tcp, ws, out, in, echo>>

\* wg.Wait, handler has called Done.
Waited(s) == back[s] = "done"

WaitReturns(s) == /\ handler[s] = "wait"
                  /\ Waited(s)
                  /\ Return(s)
                  /\ UNCHANGED <<client, sent, got, back, canceled, held, out, echo>>
-----------------------------------------------------------------------------
BackCheck(s) == /\ back[s] = "check"
                /\ BackGoes(s, IF canceled[s] THEN "done" ELSE "read")
                /\ UNCHANGED <<client, sent, got, handler, canceled, held, tcp, ws, out, in, echo>>

\* The whole of a new buffer is kept, and later sent, whatever was read.
BackRead(s) == /\ back[s] = "read"
               /\ \E k \in Lengths(in[s]) :
                    /\ held' = [held EXCEPT ![s] =
                         [i \in 1..BufSize |-> IF i <= k THEN in[s][i] ELSE Zero]]
                    /\ in' = [in EXCEPT ![s] = Rest(@, k)]
               /\ BackGoes(s, "write")
               /\ UNCHANGED <<client, sent, got, handler, canceled, tcp, ws, out, echo>>

\* The deadline passes.  Fault: that counts as an error.
Ends == "done"
GoesOn == "check"

BackTimeout(s) == /\ back[s] = "read"
                  /\ in[s] = <<>>
                  /\ BackGoes(s, GoesOn)
                  /\ UNCHANGED <<client, sent, got, handler, canceled, held, tcp, ws, out, in, echo>>

\* Out of its loop, the goroutine cancels and calls Done.
Break(s) == /\ BackGoes(s, "done")
            /\ canceled' = [canceled EXCEPT ![s] = TRUE]

BackReadFails(s) == /\ back[s] = "read"
                    /\ tcp[s] # "up"
                    /\ Break(s)
                    /\ UNCHANGED <<client, sent, got, handler, held, tcp, ws, out, in, echo>>

BackWrite(s) == /\ back[s] = "write"
                /\ client[s] = "open"
                /\ got' = [got EXCEPT ![s] = @ \o Filled(held[s])]
                /\ held' = [held EXCEPT ![s] = <<>>]
                /\ BackGoes(s, "check")
                /\ UNCHANGED <<client, sent, handler, canceled, tcp, ws, out, in, echo>>

\* A write to a client that is gone fails, or may still succeed; one to a client that
\* does not read waits.
BackWriteLost(s) == /\ back[s] = "write"
                    /\ client[s] = "gone"
                    /\ held' = [held EXCEPT ![s] = <<>>]
                    /\ \/ Break(s)
                       \/ BackGoes(s, "check") /\ UNCHANGED canceled
                    /\ UNCHANGED <<client, sent, got, handler, tcp, ws, out, in, echo>>
-----------------------------------------------------------------------------
PeerRead(s) == /\ peer[s] = "read"
               /\ \E k \in Lengths(out[s]) :
                    /\ buff' = [i \in 1..BufSize |-> IF i <= k THEN out[s][i] ELSE buff[i]]
                    /\ n' = [n EXCEPT ![s] = k]
                    /\ out' = [out EXCEPT ![s] = Rest(@, k)]
               /\ mixed' = [t \in Sessions |-> mixed[t] \/ peer[t] = "write"]
               /\ peer' = [peer EXCEPT ![s] = "write"]
               /\ UNCHANGED <<client, sent, got, proxy, ws, in, peerUp>>

\* Fault: the whole buffer is written.
WholeBuffer(s) == buff
ReadPart(s) == SubSeq(buff, 1, n[s])

\* Write, whose error is ignored too.  It may put a part of the data there before it
\* waits for room for the rest.
PeerWrite(s) == /\ peer[s] = "write"
                /\ tcp[s] = "up" => Len(in[s]) + n[s] <= Room
                /\ in' = IF tcp[s] = "up" THEN [in EXCEPT ![s] = @ \o ReadPart(s)] ELSE in
                /\ peer' = [peer EXCEPT ![s] = "read"]
                /\ n' = [n EXCEPT ![s] = 0]
                /\ UNCHANGED <<client, sent, got, proxy, ws, out, buff, peerUp, mixed>>

\* End of file: handleConn returns and leaves its connection open.
PeerEnds(s) == /\ peer[s] = "read"
               /\ tcp[s] = "closed" /\ out[s] = <<>>
               /\ peer' = [peer EXCEPT ![s] = "ended"]
               /\ UNCHANGED <<client, sent, got, proxy, ws, out, in, n, buff, peerUp, mixed>>

\* The echo server dies, and its connections with it.
PeerDies == /\ peerUp
            /\ peerUp' = FALSE
            /\ peer' = [s \in Sessions |-> IF peer[s] = "none" THEN "none" ELSE "ended"]
            /\ tcp' = [s \in Sessions |-> IF tcp[s] = "up" THEN "reset" ELSE tcp[s]]
            /\ out' = [s \in Sessions |-> <<>>]
            /\ n' = [s \in Sessions |-> 0]
            /\ buff' = [i \in 1..BufSize |-> Zero]
            /\ UNCHANGED <<client, sent, got, handler, back, canceled, held, ws, in, mixed>>
-----------------------------------------------------------------------------
Handler(s) == \/ Dial(s) \/ DialFails(s) \/ ReadMessage(s) \/ Forward(s) \/ CheckDone(s)
              \/ ReadFails(s) \/ WaitReturns(s)
Back(s) == \/ BackCheck(s) \/ BackRead(s) \/ BackTimeout(s) \/ BackReadFails(s)
           \/ BackWrite(s) \/ BackWriteLost(s)
Peer(s) == PeerRead(s) \/ PeerWrite(s) \/ PeerEnds(s)

ProxyNext == \/ \E s \in Sessions : \/ Upgrade(s) \/ Say(s) \/ Deafen(s) \/ Quit(s)
                                    \/ Handler(s) \/ Back(s) \/ Peer(s)
             \/ PeerDies

ProxySpec == ProxyInit /\ [][ProxyNext]_proxyVars

\* Goroutines run and read deadlines pass; nothing is asked of clients.
ProxyFairness == \A s \in Sessions : /\ WF_proxyVars(Handler(s))
                                     /\ WF_proxyVars(Back(s))
                                     /\ WF_proxyVars(Peer(s))

ProxyFairSpec == ProxySpec /\ ProxyFairness
-----------------------------------------------------------------------------
\* The type invariant.
ProxyTypeOK == /\ client \in [Sessions -> {"new", "open", "deaf", "gone"}]
               /\ sent \in [Sessions -> 0..MaxMsgs]
               /\ handler \in [Sessions -> HandlerStates]
               /\ back \in [Sessions -> BackStates]
               /\ canceled \in [Sessions -> BOOLEAN]
               /\ tcp \in [Sessions -> {"none", "up", "closed", "reset"}]
               /\ \A q \in {got, held, ws, out, in} : q \in [Sessions -> Seq(Units)]
               /\ peer \in [Sessions -> {"none", "read", "write", "ended"}]
               /\ n \in [Sessions -> 0..BufSize]
               /\ buff \in [1..BufSize -> Units]
               /\ peerUp \in BOOLEAN /\ mixed \in [Sessions -> BOOLEAN]

\* Apart from the empty rest of the buffers, which is sent with every answer, a
\* client receives what it has sent, in order and nothing twice, unless the echo
\* server has read for another connection between its read and its write.
EchoesOwn == \A s \in Sessions : ~mixed[s] => IsPrefix(got[s], Sent(s))

\* The handler and the echo server wait for each other for good: each in a write to
\* the connection that the other would have to read, back being gone.
Clogged(s) == /\ handler[s] = "copy" /\ Len(out[s]) = Room
              /\ peer[s] = "write" /\ Len(in[s]) + n[s] > Room
              /\ back[s] = "done"

\* A client that goes leaves nothing running: the handler returns, its goroutine ends
\* and the connection to the peer is closed.  Nothing but this can prevent it: the
\* client has not read, so that its own messages, come back, have filled all there is
\* on the way, and its end ends back first, which alone would have emptied it.
Released == \A s \in Sessions :
  client[s] = "gone" ~> \/ /\ handler[s] = "returned" /\ back[s] \in {"none", "done"}
                           /\ tcp[s] \in {"none", "closed"}
                        \/ Clogged(s)

\* Every message is answered, however long the client was idle before, however the
\* reads divide the data and however full the connections are, as long as the client
\* stays and reads and the peer runs.
Echoed == \A s \in Sessions :
  sent[s] > 0 ~> Len(got[s]) = sent[s] \/ client[s] \in {"deaf", "gone"} \/ ~peerUp
=============================================================================
