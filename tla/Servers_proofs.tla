---------------------------- MODULE Servers_proofs ----------------------------
(***************************************************************************)
(* Theorems about the servers: what the websocket proxy brings back, whom  *)
(* the bot replies to, and that a restart turns nobody away, for any       *)
(* clients, messages, commands, processes and faults.                      *)
(***************************************************************************)
EXTENDS EchoProxy, HanuBot, GracefulRestart, SequenceTheorems, FiniteSetTheorems, TLAPS

(* EchoProxy: a session's data, from the client back to it.                  *)
Data == (Sessions \X Nat) \union {Zero}

ProxyTypes ==
  /\ client \in [Sessions -> {"new", "open", "deaf", "gone"}]
  /\ sent \in [Sessions -> Nat]
  /\ handler \in [Sessions -> HandlerStates]
  /\ back \in [Sessions -> BackStates]
  /\ canceled \in [Sessions -> BOOLEAN]
  /\ tcp \in [Sessions -> {"none", "up", "closed", "reset"}]
  /\ got \in [Sessions -> Seq(Data)] /\ held \in [Sessions -> Seq(Data)]
  /\ ws \in [Sessions -> Seq(Data)] /\ out \in [Sessions -> Seq(Data)]
  /\ in \in [Sessions -> Seq(Data)]
  /\ peer \in [Sessions -> {"none", "read", "write", "ended"}]
  /\ n \in [Sessions -> 0..BufSize]
  /\ buff \in [1..BufSize -> Data]
  /\ mixed \in [Sessions -> BOOLEAN]

\* The messages of s that follow the one numbered from.
Numbered(s, q, from) == \A i \in 1..Len(q) : q[i] = <<s, from + i>>

Waiting(s) == handler[s] \in {"none", "dial"}
Linked(s) == tcp[s] = "up" \/ Waiting(s)

\* Where a session has not come to, nothing is.
Resting(s) == /\ handler[s] = "none" => sent[s] = 0 /\ client[s] = "new"
              /\ client[s] = "new" => handler[s] = "none"
              /\ Waiting(s) => /\ tcp[s] = "none" /\ back[s] = "none" /\ peer[s] = "none"
                               /\ got[s] = <<>> /\ in[s] = <<>> /\ out[s] = <<>>
              /\ handler[s] = "copy" => ws[s] # <<>>
              /\ back[s] # "write" => held[s] = <<>>
              /\ peer[s] # "write" => n[s] = 0

\* How many messages have come back to the client, to the hand of the proxy, to its
\* connection; how many the echo server has taken, and the proxy forwarded.
Reached(s) == Len(got[s]) + Len(Filled(held[s]))
Brought(s) == Reached(s) + Len(in[s])
Taken(s) == Brought(s) + n[s]
Forwarded(s) == Taken(s) + Len(out[s])

\* What a client has sent is, message after message, at the client again, in the hand
\* of back, before it, in the buffer of the echo server, before that, and before the
\* proxy: as long as the client is there, and the connection of the two.
Received(s) == Numbered(s, got[s], 0) /\ Len(got[s]) <= sent[s]
Returning(s) == /\ Numbered(s, Filled(held[s]), Len(got[s]))
                /\ Numbered(s, in[s], Reached(s)) /\ Brought(s) <= sent[s]
Going(s) == /\ \A i \in 1..n[s] : buff[i] = <<s, Brought(s) + i>>
            /\ Numbered(s, out[s], Taken(s)) /\ Numbered(s, ws[s], Forwarded(s))
            /\ Forwarded(s) + Len(ws[s]) = sent[s]
Own(s) == ~mixed[s] => /\ Received(s)
                       /\ client[s] # "gone" => Returning(s)
                       /\ client[s] # "gone" /\ Linked(s) => Going(s)

ProxyInv == ProxyTypes /\ \A s \in Sessions : Resting(s) /\ Own(s)

\* The buffer that back sends holds what it has read.
LEMMA FilledPart ==
  ASSUME NEW q \in Seq(Data), NEW k \in Nat, Cardinality(Used(q)) = k,
         k <= Len(q)
  PROVE  Filled(q) \in Seq(Data) /\ Len(Filled(q)) = k /\ \A i \in 1..k : Filled(q)[i] = q[i]
<1>1. Filled(q) = SubSeq(q, 1, k) /\ Len(q) \in Nat
  BY DEF Filled
<1>2. \A i \in 1..k : q[i] \in Data
  BY ElementOfSeq, <1>1
<1>3. /\ SubSeq(q, 1, k) \in Seq(Data)
      /\ Len(SubSeq(q, 1, k)) = IF 1 <= k THEN k - 1 + 1 ELSE 0
      /\ \A i \in 1..(k - 1 + 1) : SubSeq(q, 1, k)[i] = q[1 + i - 1]
  BY <1>2, SubSeqProperties
<1>4. QED
  BY <1>1, <1>3

LEMMA FilledType == ASSUME NEW q \in Seq(Data) PROVE Filled(q) \in Seq(Data)
<1>1. Len(q) \in Nat /\ Used(q) \subseteq 1..Len(q)
  BY DEF Used
<1>2. IsFiniteSet(1..Len(q)) /\ Cardinality(1..Len(q)) = Len(q)
  <2>1. /\ IsFiniteSet(1..Len(q))
        /\ Cardinality(1..Len(q)) = IF 1 > Len(q) THEN 0 ELSE Len(q) - 1 + 1
    BY <1>1, FS_Interval
  <2>2. QED
    BY <1>1, <2>1
<1>3. Cardinality(Used(q)) \in Nat /\ Cardinality(Used(q)) <= Len(q)
  <2>1. IsFiniteSet(Used(q)) /\ Cardinality(Used(q)) <= Cardinality(1..Len(q))
    BY <1>1, <1>2, FS_Subset
  <2>2. QED
    BY <1>2, <2>1, FS_CardinalityType
<1>4. QED
  BY <1>3, FilledPart

LEMMA NothingFilled == Filled(<<>>) = <<>>
<1>1. <<>> \in Seq(Data) /\ Used(<<>>) = {} /\ Len(<<>>) = 0
  BY DEF Used
<1>2. Filled(<<>>) \in Seq(Data) /\ Len(Filled(<<>>)) = 0
  <2>1. Cardinality(Used(<<>>)) = 0
    BY <1>1, FS_EmptySet
  <2>2. 0 \in Nat /\ 0 <= Len(<<>>)
    BY <1>1
  <2>3. QED
    BY <1>1, <2>1, <2>2, FilledPart
<1>3. QED
  BY <1>2

Buffer(q, s, from, k) ==
  /\ q \in [1..BufSize -> Data] /\ k \in 0..BufSize
  /\ \A i \in 1..k : q[i] = <<s, from + i>>
  /\ \A i \in (k + 1)..BufSize : q[i] = Zero

LEMMA Padded ==
  ASSUME NEW s \in Sessions, NEW from \in Nat, NEW k, NEW q, Buffer(q, s, from, k)
  PROVE  /\ Filled(q) \in Seq(Data) /\ Len(Filled(q)) = k
         /\ Numbered(s, Filled(q), from)
<1>0. BufSize \in Nat /\ k \in Nat /\ k <= BufSize
  BY ProxyAssumption DEF Buffer
<1>1. ASSUME NEW i \in 1..k PROVE q[i] # Zero
  <2>1. from + i \in Nat /\ i \in 1..BufSize
    BY <1>0
  <2>2. <<s, from + i>> \in Sessions \X Nat /\ q[i] = <<s, from + i>>
    BY <2>1 DEF Buffer
  <2>3. QED
    BY <2>2, ProxyAssumption
<1>2. Used(q) = 1..k
  BY <1>0, <1>1 DEF Used, Buffer
<1>3. Cardinality(Used(q)) = k
  BY <1>0, <1>2, FS_Interval
<1>4. q \in Seq(Data) /\ Len(q) = BufSize
  BY <1>0, SeqDef, LenProperties DEF Buffer
<1>5. QED
  BY <1>0, <1>3, <1>4, FilledPart DEF Numbered, Buffer

\* Rest is what is left of a run.
LEMMA RestOf ==
  ASSUME NEW q \in Seq(Data), NEW k \in Lengths(q)
  PROVE  /\ k \in 1..BufSize /\ k <= Len(q)
         /\ Rest(q, k) \in Seq(Data) /\ Len(Rest(q, k)) = Len(q) - k
         /\ \A i \in 1..Len(Rest(q, k)) : Rest(q, k)[i] = q[k + i]
<1>0. BufSize \in Nat /\ Len(q) \in Nat /\ k \in 1..Len(q) /\ k <= BufSize
  BY ProxyAssumption DEF Lengths
<1>1. \A i \in (k + 1)..Len(q) : q[i] \in Data
  BY <1>0, ElementOfSeq
<1>2. /\ SubSeq(q, k + 1, Len(q)) \in Seq(Data)
      /\ Len(SubSeq(q, k + 1, Len(q))) = IF k + 1 <= Len(q) THEN Len(q) - (k + 1) + 1 ELSE 0
      /\ \A i \in 1..(Len(q) - (k + 1) + 1) : SubSeq(q, k + 1, Len(q))[i] = q[k + 1 + i - 1]
  BY <1>0, <1>1, SubSeqProperties
<1>3. QED
  BY <1>0, <1>2 DEF Rest

\* How a run grows and shrinks.
LEMMA NumberedAppend ==
  ASSUME NEW s \in Sessions, NEW q \in Seq(Data), NEW from \in Nat, Numbered(s, q, from),
         NEW k \in Nat, k = from + Len(q) + 1
  PROVE  /\ <<s, k>> \in Data /\ Append(q, <<s, k>>) \in Seq(Data)
         /\ Numbered(s, Append(q, <<s, k>>), from) /\ Len(Append(q, <<s, k>>)) = Len(q) + 1
<1>1. <<s, k>> \in Data
  BY DEF Data
<1>2. /\ Append(q, <<s, k>>) \in Seq(Data) /\ Len(Append(q, <<s, k>>)) = Len(q) + 1
      /\ \A i \in 1..Len(q) : Append(q, <<s, k>>)[i] = q[i]
      /\ Append(q, <<s, k>>)[Len(q) + 1] = <<s, k>>
  BY <1>1, AppendProperties
<1>3. \A i \in 1..(Len(q) + 1) : i \in 1..Len(q) \/ i = Len(q) + 1
  OBVIOUS
<1>4. from + (Len(q) + 1) = k
  OBVIOUS
<1>5. QED
  BY <1>1, <1>2, <1>3, <1>4 DEF Numbered

LEMMA NumberedConcat ==
  ASSUME NEW s \in Sessions, NEW q \in Seq(Data), NEW r \in Seq(Data), NEW from \in Nat,
         Numbered(s, q, from), Numbered(s, r, from + Len(q))
  PROVE  q \o r \in Seq(Data) /\ Numbered(s, q \o r, from) /\ Len(q \o r) = Len(q) + Len(r)
<1>1. /\ q \o r \in Seq(Data) /\ Len(q \o r) = Len(q) + Len(r)
      /\ \A i \in 1..(Len(q) + Len(r)) : (q \o r)[i] = IF i <= Len(q) THEN q[i] ELSE r[i - Len(q)]
  BY ConcatProperties
<1>2. ASSUME NEW i \in 1..Len(q \o r) PROVE (q \o r)[i] = <<s, from + i>>
  <2>1. CASE i <= Len(q)
    BY <1>1, <2>1 DEF Numbered
  <2>2. CASE ~(i <= Len(q))
    <3>1. i - Len(q) \in 1..Len(r) /\ from + Len(q) + (i - Len(q)) = from + i
      BY <1>1, <2>2
    <3>2. QED
      BY <1>1, <2>2, <3>1 DEF Numbered
  <2>3. QED
    BY <2>1, <2>2
<1>3. QED
  BY <1>1, <1>2 DEF Numbered

LEMMA NumberedTail ==
  ASSUME NEW s \in Sessions, NEW q \in Seq(Data), NEW from \in Nat, Numbered(s, q, from), q # <<>>
  PROVE  /\ Tail(q) \in Seq(Data) /\ Numbered(s, Tail(q), from + 1) /\ Len(Tail(q)) = Len(q) - 1
         /\ Len(q) >= 1 /\ Head(q) = <<s, from + 1>>
<1>1. /\ Tail(q) \in Seq(Data) /\ Len(Tail(q)) = Len(q) - 1 /\ Len(q) \in Nat \ {0}
      /\ \A i \in 1..Len(Tail(q)) : Tail(q)[i] = q[i + 1]
      /\ Head(q) = q[1]
  BY HeadTailProperties, LenProperties, EmptySeq
<1>2. QED
  BY <1>1 DEF Numbered

LEMMA NumberedRest ==
  ASSUME NEW s \in Sessions, NEW q \in Seq(Data), NEW from \in Nat, Numbered(s, q, from),
         NEW k \in Lengths(q)
  PROVE  /\ \A i \in 1..k : q[i] = <<s, from + i>>
         /\ Numbered(s, Rest(q, k), from + k)
<1>1. /\ k \in 1..BufSize /\ k <= Len(q) /\ Len(Rest(q, k)) = Len(q) - k
      /\ \A i \in 1..Len(Rest(q, k)) : Rest(q, k)[i] = q[k + i]
      /\ BufSize \in Nat /\ Len(q) \in Nat
  BY RestOf, ProxyAssumption
<1>2. \A i \in 1..k : q[i] = <<s, from + i>>
  BY <1>1 DEF Numbered
<1>3. ASSUME NEW i \in 1..Len(Rest(q, k)) PROVE Rest(q, k)[i] = <<s, from + k + i>>
  <2>1. k + i \in 1..Len(q) /\ from + (k + i) = from + k + i
    BY <1>1
  <2>2. QED
    BY <1>1, <2>1 DEF Numbered
<1>4. QED
  BY <1>2, <1>3 DEF Numbered

LEMMA NoneNumbered == ASSUME NEW s, NEW from PROVE Numbered(s, <<>>, from)
<1>1. Len(<<>>) = 0
  OBVIOUS
<1>2. QED
  BY <1>1 DEF Numbered

\* The amounts are numbers.
LEMMA Amounts ==
  ASSUME ProxyTypes, NEW s \in Sessions
  PROVE  /\ got[s] \in Seq(Data) /\ Filled(held[s]) \in Seq(Data) /\ in[s] \in Seq(Data)
         /\ out[s] \in Seq(Data) /\ ws[s] \in Seq(Data) /\ sent[s] \in Nat
         /\ Len(got[s]) \in Nat /\ Len(Filled(held[s])) \in Nat /\ Len(in[s]) \in Nat
         /\ n[s] \in Nat /\ Len(out[s]) \in Nat /\ Len(ws[s]) \in Nat
         /\ Reached(s) \in Nat /\ Brought(s) \in Nat
         /\ Taken(s) \in Nat /\ Forwarded(s) \in Nat
<1>1. /\ got[s] \in Seq(Data) /\ held[s] \in Seq(Data) /\ in[s] \in Seq(Data)
      /\ out[s] \in Seq(Data) /\ ws[s] \in Seq(Data) /\ n[s] \in Nat /\ sent[s] \in Nat
  BY ProxyAssumption DEF ProxyTypes
<1>2. Filled(held[s]) \in Seq(Data)
  BY <1>1, FilledType
<1>3. /\ Len(got[s]) \in Nat /\ Len(Filled(held[s])) \in Nat /\ Len(in[s]) \in Nat
      /\ Len(out[s]) \in Nat /\ Len(ws[s]) \in Nat
  BY <1>1, <1>2
<1>4. Reached(s) \in Nat
  BY <1>3 DEF Reached, ProxyTypes
<1>5. Brought(s) \in Nat
  BY <1>3, <1>4 DEF Brought, ProxyTypes
<1>6. Taken(s) \in Nat
  BY <1>1, <1>5 DEF Taken, ProxyTypes
<1>7. Forwarded(s) \in Nat
  BY <1>3, <1>6 DEF Forwarded, ProxyTypes
<1>8. QED
  BY <1>1, <1>2, <1>3, <1>4, <1>5, <1>6, <1>7

LEMMA InitEcho == ProxyInit => ProxyInv
<1> SUFFICES ASSUME ProxyInit PROVE ProxyInv
  OBVIOUS
<1>1. ProxyTypes
  <2>1. <<>> \in Seq(Data) /\ BufSize \in Nat /\ Zero \in Data
    BY ProxyAssumption DEF Data
  <2>2. QED
    BY <2>1 DEF ProxyInit, ProxyTypes, HandlerStates, BackStates
<1>2. ASSUME NEW s \in Sessions PROVE Resting(s) /\ Own(s)
  <2>1. /\ handler[s] = "none" /\ client[s] = "new" /\ tcp[s] = "none" /\ back[s] = "none"
        /\ peer[s] = "none" /\ got[s] = <<>> /\ held[s] = <<>> /\ in[s] = <<>>
        /\ out[s] = <<>> /\ ws[s] = <<>> /\ n[s] = 0 /\ sent[s] = 0
    BY DEF ProxyInit
  <2>2. Len(<<>>) = 0 /\ <<>> \in Seq(Data)
    OBVIOUS
  <2>3. Reached(s) = 0 /\ Brought(s) = 0 /\ Taken(s) = 0 /\ Forwarded(s) = 0
    BY <2>1, <2>2, NothingFilled DEF Reached, Brought, Taken, Forwarded
  <2>4. Resting(s)
    BY <2>1 DEF Resting, Waiting
  <2>5. \A from : Numbered(s, <<>>, from)
    BY NoneNumbered
  <2>6. Received(s)
    BY <2>1, <2>2, <2>5 DEF Received
  <2>7. Returning(s)
    BY <1>1, <2>1, <2>2, <2>3, <2>5, NothingFilled DEF Returning, ProxyTypes
  <2>8. Going(s)
    BY <2>1, <2>2, <2>3, <2>5 DEF Going
  <2>9. QED
    BY <2>4, <2>6, <2>7, <2>8 DEF Own
<1>3. QED
  BY <1>1, <1>2 DEF ProxyInv

\* A step of one session leaves the others as they are, except that the echo server
\* may overwrite its buffer, which it remembers for those that were still using it.
LEMMA Elsewhere ==
  ASSUME NEW s \in Sessions, Resting(s), Own(s),
         client'[s] = client[s], sent'[s] = sent[s], handler'[s] = handler[s],
         back'[s] = back[s], tcp'[s] = tcp[s], got'[s] = got[s], held'[s] = held[s],
         ws'[s] = ws[s], out'[s] = out[s], in'[s] = in[s], peer'[s] = peer[s],
         n'[s] = n[s], mixed[s] => mixed'[s],
         buff' = buff \/ (peer[s] = "write" => mixed'[s])
  PROVE  Resting(s)' /\ Own(s)'
<1>1. Resting(s)'
  BY DEF Resting, Waiting
<1>2. CASE mixed'[s]
  BY <1>1, <1>2 DEF Own
<1>3. CASE ~mixed'[s]
  <2>1. /\ Brought(s)' = Brought(s) /\ Reached(s)' = Reached(s)
        /\ Taken(s)' = Taken(s) /\ Forwarded(s)' = Forwarded(s)
        /\ Linked(s)' <=> Linked(s)
    BY DEF Brought, Reached, Taken, Forwarded, Linked, Waiting
  <2>2. \A i \in 1..n[s] : buff'[i] = buff[i]
    BY <1>3 DEF Resting
  <2>3. /\ Received(s) => Received(s)'
        /\ Returning(s) => Returning(s)'
        /\ Going(s) => Going(s)'
    BY <2>1, <2>2 DEF Received, Returning, Going, Numbered
  <2>4. QED
    BY <1>1, <1>3, <2>1, <2>3 DEF Own
<1>4. QED
  BY <1>2, <1>3

\* The steps of a session.
ClientStep(s) == Upgrade(s) \/ Say(s) \/ Deafen(s) \/ Quit(s)

LEMMA TypesStep == ASSUME ProxyInv, NEW s \in Sessions,
                          ClientStep(s) \/ Handler(s) \/ Back(s) \/ Peer(s)
                   PROVE  ProxyTypes'
<1> USE DEF HandlerGoes, BackGoes, proxy, echo, HandlerStates, BackStates
<1>0. ProxyTypes /\ Own(s) /\ Resting(s)
  BY DEF ProxyInv
<1>1. CASE Upgrade(s) \/ Deafen(s) \/ Quit(s) \/ ReadMessage(s)
  BY <1>0, <1>1 DEF Upgrade, Deafen, Quit, ReadMessage, ProxyTypes
<1>2. CASE Say(s)
  <2>1. sent[s] + 1 \in Nat /\ <<s, sent[s] + 1>> \in Data /\ sent'[s] = sent[s] + 1
    BY <1>0, <1>2 DEF Say, ProxyTypes, Data
  <2>2. ws' \in [Sessions -> Seq(Data)]
    <3>1. Append(ws[s], <<s, sent[s] + 1>>) \in Seq(Data)
      BY <1>0, <2>1 DEF ProxyTypes
    <3>2. ws' = [ws EXCEPT ![s] = Append(ws[s], <<s, sent[s] + 1>>)]
      BY <1>2, <2>1 DEF Say
    <3>3. QED
      BY <1>0, <3>1, <3>2 DEF ProxyTypes
  <2>3. QED
    BY <1>0, <1>2, <2>1, <2>2 DEF Say, ProxyTypes
<1>3. CASE Dial(s)
  BY <1>0, <1>3 DEF Dial, ProxyTypes
<1>16. CASE DialFails(s)
  BY <1>0, <1>16 DEF DialFails, ProxyTypes
<1>4. CASE Forward(s)
  <2>1. Tail(ws[s]) \in Seq(Data) /\ Append(out[s], Head(ws[s])) \in Seq(Data)
    BY <1>0, <1>4 DEF Forward, ProxyTypes, Resting
  <2>2. QED
    BY <1>0, <1>4, <2>1 DEF Forward, ProxyTypes
<1>5. CASE ReadFails(s)
  BY <1>0, <1>5 DEF ReadFails, Canceled, ProxyTypes
<1>13. CASE CheckDone(s) \/ WaitReturns(s)
  <2>1. CASE Return(s) /\ UNCHANGED <<client, sent, got, back, canceled, held, out, echo>>
    BY <1>0, <2>1 DEF Return, ProxyTypes
  <2>2. CASE CheckDone(s) /\ HandlerGoes(s, "read") /\ UNCHANGED <<tcp, ws, in>>
    BY <1>0, <2>2 DEF CheckDone, ProxyTypes
  <2>3. QED
    BY <1>13, <2>1, <2>2 DEF CheckDone, WaitReturns
<1>6. CASE BackCheck(s)
  BY <1>0, <1>6 DEF BackCheck, ProxyTypes
<1>17. CASE BackTimeout(s)
  BY <1>0, <1>17 DEF BackTimeout, GoesOn, ProxyTypes
<1>14. CASE BackReadFails(s)
  BY <1>0, <1>14 DEF BackReadFails, Break, ProxyTypes
<1>15. CASE BackWriteLost(s)
  <2>1. back' \in [Sessions -> BackStates] /\ canceled' \in [Sessions -> BOOLEAN]
    BY <1>0, <1>15 DEF BackWriteLost, Break, ProxyTypes
  <2>2. held' \in [Sessions -> Seq(Data)]
    BY <1>0, <1>15 DEF BackWriteLost, ProxyTypes
  <2>3. QED
    BY <1>0, <1>15, <2>1, <2>2 DEF BackWriteLost, ProxyTypes
<1>7. CASE BackRead(s)
  <2>1. PICK k \in Lengths(in[s]) :
          /\ held' = [held EXCEPT ![s] = [i \in 1..BufSize |-> IF i <= k THEN in[s][i] ELSE Zero]]
          /\ in' = [in EXCEPT ![s] = Rest(@, k)]
    BY <1>7 DEF BackRead
  <2>2. in[s] \in Seq(Data)
    BY <1>0 DEF ProxyTypes
  <2>3. k \in 1..BufSize /\ k <= Len(in[s]) /\ Rest(in[s], k) \in Seq(Data) /\ BufSize \in Nat
    BY <2>2, RestOf, ProxyAssumption
  <2>4. [i \in 1..BufSize |-> IF i <= k THEN in[s][i] ELSE Zero] \in [1..BufSize -> Data]
    BY <2>2, <2>3 DEF Data
  <2>5. [i \in 1..BufSize |-> IF i <= k THEN in[s][i] ELSE Zero] \in Seq(Data)
    BY <2>3, <2>4, SeqDef
  <2>6. QED
    BY <1>0, <1>7, <2>1, <2>3, <2>5 DEF BackRead, ProxyTypes
<1>8. CASE BackWrite(s)
  <2>1. held' \in [Sessions -> Seq(Data)] /\ back' \in [Sessions -> BackStates]
    BY <1>0, <1>8 DEF BackWrite, ProxyTypes
  <2>2. got' \in [Sessions -> Seq(Data)]
    <3>1. held[s] \in Seq(Data) /\ got[s] \in Seq(Data)
      BY <1>0 DEF ProxyTypes
    <3>2. got[s] \o Filled(held[s]) \in Seq(Data)
      BY <3>1, FilledType
    <3>3. QED
      BY <1>0, <1>8, <3>2 DEF BackWrite, ProxyTypes
  <2>3. QED
    BY <1>0, <1>8, <2>1, <2>2 DEF BackWrite, ProxyTypes
<1>9. CASE PeerRead(s)
  <2>1. PICK k \in Lengths(out[s]) :
          /\ buff' = [i \in 1..BufSize |-> IF i <= k THEN out[s][i] ELSE buff[i]]
          /\ n' = [n EXCEPT ![s] = k]
          /\ out' = [out EXCEPT ![s] = Rest(@, k)]
    BY <1>9 DEF PeerRead
  <2>2. out[s] \in Seq(Data)
    BY <1>0 DEF ProxyTypes
  <2>3. k \in 1..BufSize /\ k <= Len(out[s]) /\ Rest(out[s], k) \in Seq(Data) /\ BufSize \in Nat
    BY <2>2, RestOf, ProxyAssumption
  <2>4. buff' \in [1..BufSize -> Data]
    BY <1>0, <2>1, <2>2, <2>3 DEF ProxyTypes
  <2>5. mixed' \in [Sessions -> BOOLEAN]
    BY <1>0, <1>9 DEF PeerRead, ProxyTypes
  <2>6. n' \in [Sessions -> 0..BufSize]
    BY <1>0, <2>1, <2>3 DEF ProxyTypes
  <2>7. QED
    BY <1>0, <1>9, <2>1, <2>3, <2>4, <2>5, <2>6 DEF PeerRead, ProxyTypes
<1>10. CASE PeerWrite(s)
  <2>1. n[s] \in Nat /\ n[s] <= BufSize /\ BufSize \in Nat
    BY <1>0, ProxyAssumption DEF ProxyTypes
  <2>2. ReadPart(s) \in Seq(Data)
    <3>1. \A i \in 1..n[s] : buff[i] \in Data
      BY <1>0, <2>1 DEF ProxyTypes
    <3>2. QED
      BY <2>1, <3>1, SubSeqProperties DEF ReadPart
  <2>3. in[s] \o ReadPart(s) \in Seq(Data)
    BY <1>0, <2>2 DEF ProxyTypes
  <2>4. QED
    BY <1>0, <1>10, <2>1, <2>3 DEF PeerWrite, ProxyTypes
<1>11. CASE PeerEnds(s)
  BY <1>0, <1>11 DEF PeerEnds, ProxyTypes
<1>12. QED
  BY <1>1, <1>2, <1>3, <1>4, <1>5, <1>6, <1>7, <1>8, <1>9, <1>10, <1>11, <1>13,
     <1>14, <1>15, <1>16, <1>17
     DEF ClientStep, Handler, Back, Peer

\* A step that moves no data of a session, but may drop what the connection held.
Unmoved(s) == /\ sent'[s] = sent[s] /\ got'[s] = got[s] /\ held'[s] = held[s]
              /\ in'[s] = in[s] /\ n'[s] = n[s] /\ buff' = buff /\ mixed'[s] = mixed[s]
              /\ client'[s] # "gone" => client[s] # "gone"
              /\ Linked(s)' => Linked(s) /\ out'[s] = out[s] /\ ws'[s] = ws[s]
LEMMA Stays ==
  ASSUME ProxyTypes, ProxyTypes', NEW s \in Sessions, Own(s), Unmoved(s) PROVE Own(s)'
<1>6. Reached(s)' = Reached(s)
  BY DEF Unmoved, Reached
<1>7. Brought(s)' = Brought(s)
  BY <1>6 DEF Unmoved, Brought
<1>8. Taken(s)' = Taken(s)
  BY <1>7 DEF Unmoved, Taken
<1>9. Linked(s)' => Forwarded(s)' = Forwarded(s)
  BY <1>8 DEF Unmoved, Forwarded
<1>1. /\ Reached(s)' = Reached(s) /\ Brought(s)' = Brought(s)
      /\ Taken(s)' = Taken(s) /\ (Linked(s)' => Forwarded(s)' = Forwarded(s))
  BY <1>6, <1>7, <1>8, <1>9
<1>2. Received(s) => Received(s)'
  BY DEF Unmoved, Received, Numbered
<1>3. Returning(s) => Returning(s)'
  BY <1>1 DEF Unmoved, Returning, Numbered
<1>4. Linked(s)' /\ Going(s) => Going(s)'
  BY <1>1 DEF Unmoved, Going, Numbered
<1>5. QED
  BY <1>2, <1>3, <1>4 DEF Unmoved, Own

LEMMA QuietSteps ==
  ASSUME ProxyInv, NEW s \in Sessions,
         \/ Upgrade(s) \/ Deafen(s) \/ Quit(s) \/ Dial(s) \/ DialFails(s) \/ ReadMessage(s)
         \/ ReadFails(s) \/ BackCheck(s) \/ BackTimeout(s) \/ BackReadFails(s) \/ PeerEnds(s)
  PROVE  Resting(s)' /\ Own(s)'
<1> USE DEF HandlerGoes, BackGoes, proxy, echo
<1>0. ProxyTypes /\ Own(s) /\ Resting(s) /\ ProxyTypes'
  BY TypesStep DEF ProxyInv, ClientStep, Handler, Back, Peer
<1> SUFFICES Resting(s)' /\ Unmoved(s)
  BY <1>0, Stays
<1>1. CASE Upgrade(s)
  BY <1>0, <1>1 DEF Upgrade, ProxyTypes, Resting, Waiting, Unmoved, Linked
<1>2. CASE Deafen(s) \/ Quit(s)
  BY <1>0, <1>2 DEF Deafen, Quit, ProxyTypes, Resting, Waiting, Unmoved, Linked
<1>11. CASE ReadMessage(s)
  BY <1>0, <1>11 DEF ReadMessage, ProxyTypes, Resting, Waiting, Unmoved, Linked
<1>3. CASE Dial(s)
  BY <1>0, <1>3 DEF Dial, ProxyTypes, Resting, Waiting, Unmoved, Linked
<1>4. CASE DialFails(s)
  BY <1>0, <1>4 DEF DialFails, ProxyTypes, Resting, Waiting, Unmoved, Linked
<1>5. CASE ReadFails(s)
  BY <1>0, <1>5 DEF ReadFails, ProxyTypes, Resting, Waiting, Unmoved, Linked
<1>6. CASE BackCheck(s)
  BY <1>0, <1>6 DEF BackCheck, ProxyTypes, Resting, Waiting, Unmoved, Linked
<1>7. CASE BackTimeout(s)
  BY <1>0, <1>7 DEF BackTimeout, GoesOn, ProxyTypes, Resting, Waiting, Unmoved, Linked
<1>8. CASE BackReadFails(s)
  BY <1>0, <1>8 DEF BackReadFails, Break, ProxyTypes, Resting, Waiting, Unmoved, Linked
<1>9. CASE PeerEnds(s)
  BY <1>0, <1>9 DEF PeerEnds, ProxyTypes, Resting, Waiting, Unmoved, Linked
<1>10. QED
  BY <1>1, <1>2, <1>3, <1>4, <1>5, <1>6, <1>7, <1>8, <1>9, <1>11

LEMMA SayStep == ASSUME ProxyInv, NEW s \in Sessions, Say(s) PROVE Resting(s)' /\ Own(s)'
<1>0. ProxyTypes /\ Own(s) /\ Resting(s) /\ ProxyTypes'
  BY TypesStep DEF ProxyInv, ClientStep
<1>1. /\ sent'[s] = sent[s] + 1 /\ sent[s] \in Nat /\ client'[s] = client[s]
      /\ client[s] \in {"open", "deaf"}
      /\ ws[s] \in Seq(Data) /\ ws'[s] = Append(ws[s], <<s, sent[s] + 1>>)
      /\ out[s] \in Seq(Data) /\ in[s] \in Seq(Data) /\ n[s] \in Nat
      /\ UNCHANGED <<handler, back, held, tcp, out, in, got, peer, n, buff, mixed>>
  BY <1>0, ProxyAssumption DEF Say, ProxyTypes, proxy, echo
<1>2. Resting(s)'
  <2>1. ws'[s] # <<>>
    <3>1. ws[s] \in Seq(Data) /\ <<s, sent[s] + 1>> \in Data
      BY <1>1 DEF Data
    <3>2. QED
      BY <1>1, <3>1, AppendProperties
  <2>2. QED
    BY <1>0, <1>1, <2>1 DEF Resting, Waiting
<1>3. /\ Reached(s)' = Reached(s) /\ Brought(s)' = Brought(s)
      /\ Taken(s)' = Taken(s) /\ Forwarded(s)' = Forwarded(s)
      /\ Linked(s)' <=> Linked(s)
  BY <1>1 DEF Reached, Brought, Taken, Forwarded, Linked, Waiting
<1>4. ASSUME Received(s) PROVE Received(s)'
  <2>1. Len(got[s]) <= sent[s] => Len(got[s]) <= sent[s] + 1
    BY <1>0, <1>1, Amounts
  <2>2. QED
    BY <1>1, <1>4, <2>1 DEF Received, Numbered
<1>7. ASSUME Returning(s) PROVE Returning(s)'
  <2>1. Brought(s) <= sent[s] => Brought(s) <= sent[s] + 1
    BY <1>0, <1>1, Amounts
  <2>2. QED
    BY <1>1, <1>3, <1>7, <2>1 DEF Returning, Numbered
<1>5. ASSUME Going(s) PROVE Going(s)'
  <2>1. Numbered(s, ws[s], Forwarded(s)) /\ Forwarded(s) + Len(ws[s]) = sent[s]
    BY <1>5 DEF Going
  <2>2. Forwarded(s) \in Nat /\ sent[s] + 1 \in Nat /\ sent[s] + 1 = Forwarded(s) + Len(ws[s]) + 1
    <3>1. Forwarded(s) \in Nat /\ Len(ws[s]) \in Nat
      BY <1>0, Amounts
    <3>2. QED
      BY <1>1, <2>1, <3>1
  <2>3. Numbered(s, ws'[s], Forwarded(s)) /\ Len(ws'[s]) = Len(ws[s]) + 1
    BY <1>1, <2>1, <2>2, NumberedAppend
  <2>4. Forwarded(s) + Len(ws'[s]) = sent'[s]
    BY <1>0, <1>1, <2>1, <2>3, Amounts
  <2>5. QED
    BY <1>1, <1>3, <1>5, <2>3, <2>4 DEF Going, Numbered
<1>6. QED
  BY <1>0, <1>1, <1>2, <1>3, <1>4, <1>5, <1>7 DEF Own

LEMMA ForwardStep ==
  ASSUME ProxyInv, NEW s \in Sessions, Forward(s) PROVE Resting(s)' /\ Own(s)'
<1>0. ProxyTypes /\ Own(s) /\ Resting(s) /\ ProxyTypes'
  BY TypesStep DEF ProxyInv, Handler
<1>1. /\ ws[s] # <<>> /\ ws'[s] = Tail(ws[s]) /\ handler[s] = "copy" /\ handler'[s] = "check"
      /\ tcp[s] = "up" => out'[s] = Append(out[s], Head(ws[s]))
      /\ UNCHANGED <<client, sent, got, back, held, tcp, in, peer, n, buff, mixed>>
  BY <1>0 DEF Forward, ProxyTypes, HandlerGoes, echo, Resting
<1>2. Resting(s)'
  BY <1>0, <1>1 DEF Resting, Waiting
<1>3. Reached(s)' = Reached(s)
  BY <1>1 DEF Reached
<1>4. Brought(s)' = Brought(s)
  BY <1>1, <1>3 DEF Brought
<1>5. Taken(s)' = Taken(s)
  BY <1>1, <1>4 DEF Taken
<1>6. Linked(s)' => tcp[s] = "up" /\ Linked(s)
  BY <1>1 DEF Linked, Waiting
<1>7. (Received(s) => Received(s)') /\ (Returning(s) => Returning(s)')
  BY <1>1, <1>3, <1>4 DEF Received, Returning, Numbered
<1>8. ASSUME Going(s), tcp[s] = "up" PROVE Going(s)'
  <2>1. Numbered(s, out[s], Taken(s)) /\ Numbered(s, ws[s], Forwarded(s))
    BY <1>8 DEF Going
  <2>2. /\ Numbered(s, Tail(ws[s]), Forwarded(s) + 1) /\ Len(Tail(ws[s])) = Len(ws[s]) - 1
        /\ Head(ws[s]) = <<s, Forwarded(s) + 1>>
    BY <1>0, <1>1, <2>1, NumberedTail, Amounts
  <2>3. Forwarded(s) + 1 \in Nat /\ Forwarded(s) + 1 = Taken(s) + Len(out[s]) + 1
    BY <1>0, Amounts DEF Forwarded
  <2>4. Numbered(s, out'[s], Taken(s)) /\ Len(out'[s]) = Len(out[s]) + 1
    <3>1. /\ Numbered(s, Append(out[s], <<s, Forwarded(s) + 1>>), Taken(s))
          /\ Len(Append(out[s], <<s, Forwarded(s) + 1>>)) = Len(out[s]) + 1
      <4>1. out[s] \in Seq(Data) /\ Taken(s) \in Nat
        BY <1>0, Amounts
      <4>2. QED
        BY <2>1, <2>3, <4>1, NumberedAppend
    <3>2. out'[s] = Append(out[s], <<s, Forwarded(s) + 1>>)
      BY <1>1, <1>8, <2>2
    <3>3. QED
      BY <3>1, <3>2
  <2>5. Forwarded(s)' = Forwarded(s) + 1
    <3>1. Forwarded(s)' = Taken(s) + (Len(out[s]) + 1)
      BY <1>5, <2>4 DEF Forwarded
    <3>2. QED
      BY <1>0, <2>3, <3>1, Amounts
  <2>6. Forwarded(s)' + Len(ws'[s]) = sent'[s]
    <3>1. Forwarded(s) + Len(ws[s]) = sent[s]
      BY <1>8 DEF Going
    <3>2. Forwarded(s)' + Len(ws'[s]) = (Forwarded(s) + 1) + (Len(ws[s]) - 1)
      BY <1>1, <2>2, <2>5
    <3>3. QED
      BY <1>0, <1>1, <3>1, <3>2, Amounts
  <2>7. \A i \in 1..n'[s] : buff'[i] = <<s, Brought(s)' + i>>
    BY <1>1, <1>4, <1>8 DEF Going
  <2>8. Numbered(s, ws'[s], Forwarded(s)') /\ Numbered(s, out'[s], Taken(s)')
    BY <1>1, <1>5, <2>2, <2>4, <2>5
  <2>9. QED
    BY <2>6, <2>7, <2>8 DEF Going, Numbered
<1>9. QED
  BY <1>0, <1>1, <1>2, <1>6, <1>7, <1>8 DEF Own

LEMMA ReturnStep ==
  ASSUME ProxyInv, NEW s \in Sessions, CheckDone(s) \/ WaitReturns(s)
  PROVE  Resting(s)' /\ Own(s)'
<1>0. ProxyTypes /\ Own(s) /\ Resting(s) /\ ProxyTypes'
  BY TypesStep DEF ProxyInv, Handler
<1>1. CASE CheckDone(s) /\ HandlerGoes(s, "read") /\ UNCHANGED <<tcp, ws, in>>
  BY <1>0, <1>1, Stays
     DEF CheckDone, HandlerGoes, echo, ProxyTypes, Resting, Waiting, Unmoved, Linked
<1>2. CASE /\ Return(s) /\ handler[s] \in {"check", "wait"}
           /\ UNCHANGED <<client, sent, got, back, canceled, held, out, echo>>
  <2>1. /\ handler'[s] = "returned" /\ tcp'[s] = "closed" /\ in'[s] = <<>>
        /\ UNCHANGED <<client, sent, got, back, held, out, peer, n, buff, mixed>>
    BY <1>0, <1>2 DEF Return, HandlerGoes, ProxyTypes, echo
  <2>2. Resting(s)' /\ ~Linked(s)'
    BY <1>0, <1>2, <2>1 DEF Resting, Waiting, Linked
  <2>3. Received(s) => Received(s)'
    BY <2>1 DEF Received, Numbered
  <2>4. Reached(s)' = Reached(s)
    BY <2>1 DEF Reached
  <2>5. ASSUME Returning(s) PROVE Returning(s)'
    <3>1. Numbered(s, in'[s], Reached(s)')
      BY <2>1, NoneNumbered
    <3>2. Brought(s)' = Reached(s) + 0
      BY <2>1, <2>4 DEF Brought
    <3>3. Brought(s) = Reached(s) + Len(in[s]) /\ Brought(s) <= sent[s]
      BY <2>5 DEF Returning, Brought
    <3>4. Brought(s)' <= sent'[s]
      BY <1>0, <2>1, <3>2, <3>3, Amounts
    <3>5. Numbered(s, Filled(held'[s]), Len(got'[s]))
      BY <2>1, <2>5 DEF Returning
    <3>6. QED
      BY <3>1, <3>4, <3>5 DEF Returning, Numbered
  <2>6. QED
    BY <1>0, <2>1, <2>2, <2>3, <2>5 DEF Own
<1>3. QED
  BY <1>1, <1>2 DEF CheckDone, WaitReturns

LEMMA BackReadStep ==
  ASSUME ProxyInv, NEW s \in Sessions, BackRead(s) PROVE Resting(s)' /\ Own(s)'
<1>0. ProxyTypes /\ Own(s) /\ Resting(s) /\ ProxyTypes'
  BY TypesStep DEF ProxyInv, Back
<1>1. PICK k \in Lengths(in[s]) :
        /\ held' = [held EXCEPT ![s] = [i \in 1..BufSize |-> IF i <= k THEN in[s][i] ELSE Zero]]
        /\ in' = [in EXCEPT ![s] = Rest(@, k)]
  BY DEF BackRead
<1>2. /\ held'[s] = [i \in 1..BufSize |-> IF i <= k THEN in[s][i] ELSE Zero]
      /\ in'[s] = Rest(in[s], k) /\ back[s] = "read" /\ back'[s] = "write"
      /\ UNCHANGED <<client, sent, got, handler, tcp, ws, out, peer, n, buff, mixed>>
  BY <1>0, <1>1 DEF BackRead, ProxyTypes, BackGoes, echo
<1>3. Resting(s)'
  BY <1>0, <1>2 DEF Resting, Waiting
<1>4. /\ k \in 1..BufSize /\ k <= Len(in[s]) /\ Len(Rest(in[s], k)) = Len(in[s]) - k
      /\ BufSize \in Nat /\ k \in Nat
  BY <1>0, RestOf, Amounts, ProxyAssumption
<1>5. Received(s) => Received(s)'
  BY <1>2 DEF Received, Numbered
<1>6. Reached(s) = Len(got[s])
  <2>1. Filled(held[s]) = <<>>
    BY <1>0, <1>2, NothingFilled DEF Resting
  <2>2. Reached(s) = Len(got[s]) + 0
    BY <2>1 DEF Reached
  <2>3. QED
    BY <1>0, <2>2, Amounts
<1>7. ASSUME Returning(s) PROVE Returning(s)' /\ Brought(s)' = Brought(s)
  <2>1. /\ \A i \in 1..k : in[s][i] = <<s, Len(got[s]) + i>>
        /\ Numbered(s, Rest(in[s], k), Len(got[s]) + k)
    BY <1>0, <1>6, <1>7, NumberedRest, Amounts DEF Returning
  <2>2. held'[s] \in [1..BufSize -> Data]
    <3>1. \A i \in 1..k : in[s][i] \in Data
      BY <1>0, <1>4, Amounts, ElementOfSeq
    <3>2. QED
      BY <1>2, <3>1 DEF Data
  <2>3. /\ \A i \in 1..k : held'[s][i] = <<s, Len(got[s]) + i>>
        /\ \A i \in (k + 1)..BufSize : held'[s][i] = Zero
    <3>1. \A i \in 1..BufSize : held'[s][i] = IF i <= k THEN in[s][i] ELSE Zero
      BY <1>2
    <3>2. /\ \A i \in 1..k : i \in 1..BufSize /\ i <= k
          /\ \A i \in (k + 1)..BufSize : i \in 1..BufSize /\ ~(i <= k)
      BY <1>4
    <3>3. QED
      BY <2>1, <3>1, <3>2
  <2>4. Numbered(s, Filled(held'[s]), Len(got[s])) /\ Len(Filled(held'[s])) = k
    <3>1. Len(got[s]) \in Nat /\ k \in 0..BufSize
      BY <1>0, <1>4, Amounts
    <3>2. Buffer(held'[s], s, Len(got[s]), k)
      BY <2>2, <2>3, <3>1 DEF Buffer
    <3>3. QED
      BY <3>1, <3>2, Padded
  <2>5. Reached(s)' = Len(got[s]) + k
    BY <1>2, <2>4 DEF Reached
  <2>6. Brought(s)' = Brought(s)
    <3>1. Brought(s)' = Len(got[s]) + k + (Len(in[s]) - k)
      BY <1>2, <1>4, <2>5 DEF Brought
    <3>2. Brought(s) = Len(got[s]) + Len(in[s])
      BY <1>6 DEF Brought
    <3>3. \A a, b \in Nat : a + k + (b - k) = a + b
      BY <1>4
    <3>4. QED
      BY <1>0, <3>1, <3>2, <3>3, Amounts
  <2>7. Numbered(s, in'[s], Reached(s)') /\ Brought(s)' <= sent'[s]
    BY <1>2, <1>7, <2>1, <2>5, <2>6 DEF Returning
  <2>8. QED
    BY <1>2, <2>4, <2>6, <2>7 DEF Returning, Numbered
<1>8. ASSUME Going(s), Brought(s)' = Brought(s) PROVE Going(s)'
  <2>1. Taken(s)' = Taken(s)
    BY <1>2, <1>8 DEF Taken
  <2>2. Forwarded(s)' = Forwarded(s)
    BY <1>2, <2>1 DEF Forwarded
  <2>3. QED
    BY <1>2, <1>8, <2>1, <2>2 DEF Going, Numbered
<1>9. Linked(s)' <=> Linked(s)
  BY <1>2 DEF Linked, Waiting
<1>10. QED
  BY <1>0, <1>2, <1>3, <1>5, <1>7, <1>8, <1>9 DEF Own

LEMMA BackWriteStep ==
  ASSUME ProxyInv, NEW s \in Sessions, BackWrite(s) PROVE Resting(s)' /\ Own(s)'
<1>0. ProxyTypes /\ Own(s) /\ Resting(s) /\ ProxyTypes'
  BY TypesStep DEF ProxyInv, Back
<1>1. /\ client[s] = "open" /\ got'[s] = got[s] \o Filled(held[s]) /\ held'[s] = <<>>
      /\ back[s] = "write" /\ back'[s] = "check"
      /\ UNCHANGED <<client, sent, handler, tcp, ws, out, in, peer, n, buff, mixed>>
  BY <1>0 DEF BackWrite, ProxyTypes, BackGoes, echo
<1>2. Resting(s)'
  BY <1>0, <1>1 DEF Resting, Waiting
<1>3. Linked(s)' <=> Linked(s)
  BY <1>1 DEF Linked, Waiting
<1>4. ASSUME Received(s), Returning(s)
      PROVE  Received(s)' /\ Returning(s)' /\ Brought(s)' = Brought(s)
  <2>1. Numbered(s, got[s], 0) /\ Numbered(s, Filled(held[s]), 0 + Len(got[s]))
    BY <1>0, <1>4, Amounts DEF Received, Returning
  <2>2. /\ Numbered(s, got[s] \o Filled(held[s]), 0)
        /\ Len(got[s] \o Filled(held[s])) = Len(got[s]) + Len(Filled(held[s]))
    BY <1>0, <2>1, NumberedConcat, Amounts
  <2>3. Numbered(s, got'[s], 0) /\ Len(got'[s]) = Reached(s)
    BY <1>1, <2>2 DEF Reached
  <2>4. Reached(s)' = Reached(s) + 0
    <3>1. Len(Filled(held'[s])) = 0
      BY <1>1, NothingFilled
    <3>2. QED
      BY <2>3, <3>1 DEF Reached
  <2>5. Reached(s)' = Reached(s)
    BY <1>0, <2>4, Amounts
  <2>6. Brought(s)' = Brought(s)
    BY <1>1, <2>5 DEF Brought
  <2>7. Brought(s) = Reached(s) + Len(in[s]) /\ Brought(s) <= sent[s]
    BY <1>4 DEF Returning, Brought
  <2>8. Reached(s) <= sent[s]
    BY <1>0, <2>7, Amounts
  <2>9. Numbered(s, in[s], Reached(s)) /\ Numbered(s, Filled(held'[s]), Len(got'[s]))
    BY <1>1, <1>4, NoneNumbered, NothingFilled DEF Returning
  <2>10. QED
    BY <1>1, <2>3, <2>5, <2>6, <2>7, <2>8, <2>9 DEF Received, Returning, Numbered
<1>5. ASSUME Going(s), Brought(s)' = Brought(s) PROVE Going(s)'
  <2>1. Taken(s)' = Taken(s)
    BY <1>1, <1>5 DEF Taken
  <2>2. Forwarded(s)' = Forwarded(s)
    BY <1>1, <2>1 DEF Forwarded
  <2>3. QED
    BY <1>1, <1>5, <2>1, <2>2 DEF Going, Numbered
<1>6. QED
  BY <1>0, <1>1, <1>2, <1>3, <1>4, <1>5 DEF Own

LEMMA BackWriteLostStep ==
  ASSUME ProxyInv, NEW s \in Sessions, BackWriteLost(s) PROVE Resting(s)' /\ Own(s)'
<1>0. ProxyTypes /\ Own(s) /\ Resting(s)
  BY DEF ProxyInv
<1>1. /\ client'[s] = "gone" /\ held'[s] = <<>> /\ back[s] = "write" /\ back'[s] # "none"
      /\ UNCHANGED <<client, sent, got, handler, tcp, ws, out, in, peer, n, buff, mixed>>
  BY <1>0 DEF BackWriteLost, ProxyTypes, BackGoes, Break, echo
<1>2. Resting(s)'
  BY <1>0, <1>1 DEF Resting, Waiting
<1>3. Received(s) => Received(s)'
  BY <1>1 DEF Received, Numbered
<1>4. QED
  BY <1>0, <1>1, <1>2, <1>3 DEF Own

LEMMA PeerReadStep ==
  ASSUME ProxyInv, NEW s \in Sessions, PeerRead(s) PROVE Resting(s)' /\ Own(s)'
<1>0. ProxyTypes /\ Own(s) /\ Resting(s) /\ ProxyTypes'
  BY TypesStep DEF ProxyInv, Peer
<1>1. PICK k \in Lengths(out[s]) :
        /\ buff' = [i \in 1..BufSize |-> IF i <= k THEN out[s][i] ELSE buff[i]]
        /\ n' = [n EXCEPT ![s] = k]
        /\ out' = [out EXCEPT ![s] = Rest(@, k)]
  BY DEF PeerRead
<1>2. /\ n'[s] = k /\ out'[s] = Rest(out[s], k) /\ peer[s] = "read" /\ peer'[s] = "write"
      /\ mixed'[s] = (mixed[s] \/ peer[s] = "write")
      /\ UNCHANGED <<client, sent, got, handler, back, held, tcp, ws, in>>
  BY <1>0, <1>1 DEF PeerRead, ProxyTypes, proxy
<1>3. Resting(s)'
  BY <1>0, <1>2 DEF Resting, Waiting
<1>4. /\ k \in 1..BufSize /\ k <= Len(out[s]) /\ Len(Rest(out[s], k)) = Len(out[s]) - k
      /\ BufSize \in Nat /\ k \in Nat
  BY <1>0, RestOf, Amounts, ProxyAssumption
<1>5. Reached(s)' = Reached(s)
  BY <1>2 DEF Reached
<1>6. Brought(s)' = Brought(s)
  BY <1>2, <1>5 DEF Brought
<1>7. (Received(s) => Received(s)') /\ (Returning(s) => Returning(s)')
  BY <1>2, <1>5, <1>6 DEF Received, Returning, Numbered
<1>8. (Linked(s)' <=> Linked(s)) /\ (~mixed'[s] => ~mixed[s])
  BY <1>2 DEF Linked, Waiting
<1>9. ASSUME Going(s) PROVE Going(s)'
  <2>1. Taken(s) = Brought(s)
    <3>1. Taken(s) = Brought(s) + 0
      BY <1>0, <1>2 DEF Taken, Resting
    <3>2. QED
      BY <1>0, <3>1, Amounts
  <2>2. /\ \A i \in 1..k : out[s][i] = <<s, Brought(s) + i>>
        /\ Numbered(s, Rest(out[s], k), Brought(s) + k)
    BY <1>0, <1>9, <2>1, NumberedRest, Amounts DEF Going
  <2>3. Taken(s)' = Brought(s) + k
    BY <1>2, <1>6 DEF Taken
  <2>4. Forwarded(s)' = Forwarded(s)
    <3>1. Forwarded(s)' = Brought(s) + k + (Len(out[s]) - k)
      BY <1>2, <1>4, <2>3 DEF Forwarded
    <3>2. Forwarded(s) = Brought(s) + Len(out[s])
      BY <2>1 DEF Forwarded
    <3>3. \A a, b \in Nat : a + k + (b - k) = a + b
      BY <1>4
    <3>4. QED
      BY <1>0, <3>1, <3>2, <3>3, Amounts
  <2>5. \A i \in 1..n'[s] : buff'[i] = <<s, Brought(s)' + i>>
    <3>1. \A i \in 1..k : i \in 1..BufSize /\ i <= k
      BY <1>4
    <3>2. \A i \in 1..k : buff'[i] = out[s][i]
      BY <1>1, <3>1
    <3>3. QED
      BY <1>2, <1>6, <2>2, <3>2
  <2>6. Numbered(s, out'[s], Taken(s)')
    BY <1>2, <2>2, <2>3
  <2>7. Numbered(s, ws'[s], Forwarded(s)') /\ Forwarded(s)' + Len(ws'[s]) = sent'[s]
    BY <1>2, <1>9, <2>4 DEF Going
  <2>8. QED
    BY <2>5, <2>6, <2>7 DEF Going, Numbered
<1>10. QED
  BY <1>0, <1>2, <1>3, <1>7, <1>8, <1>9 DEF Own

LEMMA PeerWriteStep ==
  ASSUME ProxyInv, NEW s \in Sessions, PeerWrite(s) PROVE Resting(s)' /\ Own(s)'
<1>0. ProxyTypes /\ Own(s) /\ Resting(s) /\ ProxyTypes'
  BY TypesStep DEF ProxyInv, Peer
<1>1. /\ tcp[s] = "up" => in'[s] = in[s] \o ReadPart(s)
      /\ tcp[s] # "up" => in'[s] = in[s]
      /\ n'[s] = 0 /\ peer[s] = "write" /\ peer'[s] = "read"
      /\ UNCHANGED <<client, sent, got, handler, back, held, tcp, ws, out, buff, mixed>>
  BY <1>0 DEF PeerWrite, ProxyTypes, proxy
<1>2. Resting(s)'
  BY <1>0, <1>1 DEF Resting, Waiting
<1>3. ~Waiting(s) /\ ~Waiting(s)'
  BY <1>0, <1>1 DEF Resting, Waiting
<1>4. Reached(s)' = Reached(s)
  BY <1>1 DEF Reached
<1>5. Received(s) => Received(s)'
  BY <1>1 DEF Received, Numbered
<1>6. CASE tcp[s] # "up"
  <2>1. ~Linked(s)'
    BY <1>1, <1>3, <1>6 DEF Linked
  <2>2. Brought(s)' = Brought(s)
    BY <1>1, <1>4, <1>6 DEF Brought
  <2>3. Returning(s) => Returning(s)'
    BY <1>1, <1>4, <1>6, <2>2 DEF Returning, Numbered
  <2>4. QED
    BY <1>0, <1>1, <1>2, <1>5, <2>1, <2>3 DEF Own
<1>7. CASE tcp[s] = "up"
  <2>1. Linked(s)
    BY <1>7 DEF Linked
  <2>2. ReadPart(s) \in Seq(Data) /\ Len(ReadPart(s)) = n[s]
        /\ \A i \in 1..n[s] : ReadPart(s)[i] = buff[i]
    <3>1. n[s] \in Nat /\ n[s] <= BufSize /\ BufSize \in Nat
      BY <1>0, ProxyAssumption DEF ProxyTypes
    <3>2. \A i \in 1..n[s] : buff[i] \in Data
      BY <1>0, <3>1 DEF ProxyTypes
    <3>3. /\ SubSeq(buff, 1, n[s]) \in Seq(Data)
          /\ Len(SubSeq(buff, 1, n[s])) = IF 1 <= n[s] THEN n[s] - 1 + 1 ELSE 0
          /\ \A i \in 1..(n[s] - 1 + 1) : SubSeq(buff, 1, n[s])[i] = buff[1 + i - 1]
      BY <3>1, <3>2, SubSeqProperties
    <3>4. QED
      BY <3>1, <3>3 DEF ReadPart
  <2>3. ASSUME Returning(s), Going(s) PROVE Returning(s)' /\ Going(s)'
    <3>1. Numbered(s, ReadPart(s), Reached(s) + Len(in[s]))
      BY <2>2, <2>3 DEF Numbered, Going, Brought
    <3>2. Numbered(s, in'[s], Reached(s)) /\ Len(in'[s]) = Len(in[s]) + n[s]
      <4>1. Numbered(s, in[s], Reached(s))
        BY <2>3 DEF Returning
      <4>2. /\ Numbered(s, in[s] \o ReadPart(s), Reached(s))
            /\ Len(in[s] \o ReadPart(s)) = Len(in[s]) + Len(ReadPart(s))
        BY <1>0, <2>2, <3>1, <4>1, NumberedConcat, Amounts
      <4>3. QED
        BY <1>1, <1>7, <2>2, <4>2
    <3>3. Brought(s)' = Taken(s)
      <4>1. Brought(s)' = Reached(s) + (Len(in[s]) + n[s])
        BY <1>4, <3>2 DEF Brought
      <4>2. Taken(s) = Reached(s) + Len(in[s]) + n[s]
        BY DEF Taken, Brought
      <4>3. QED
        BY <1>0, <4>1, <4>2, Amounts
    <3>4. Taken(s)' = Taken(s)
      <4>1. Taken(s)' = Taken(s) + 0
        BY <1>1, <3>3 DEF Taken
      <4>2. QED
        BY <1>0, <4>1, Amounts
    <3>5. Forwarded(s)' = Forwarded(s)
      BY <1>1, <3>4 DEF Forwarded
    <3>6. Brought(s)' <= sent'[s]
      <4>1. Taken(s) + Len(out[s]) + Len(ws[s]) = sent[s]
        BY <2>3 DEF Going, Forwarded
      <4>2. QED
        BY <1>0, <1>1, <3>3, <4>1, Amounts
    <3>7. Returning(s)'
      BY <1>1, <1>4, <2>3, <3>2, <3>6 DEF Returning, Numbered
    <3>8. \A i \in 1..n'[s] : buff'[i] = <<s, Brought(s)' + i>>
      BY <1>1
    <3>9. Going(s)'
      BY <1>1, <2>3, <3>4, <3>5, <3>8 DEF Going, Numbered
    <3>10. QED
      BY <3>7, <3>9
  <2>4. QED
    BY <1>0, <1>1, <1>2, <1>5, <2>1, <2>3 DEF Own
<1>8. QED
  BY <1>6, <1>7

LEMMA DiesStep ==
  ASSUME ProxyInv, PeerDies PROVE ProxyTypes' /\ \A s \in Sessions : Resting(s)' /\ Own(s)'
<1>0. ProxyTypes
  BY DEF ProxyInv
<1>1. ProxyTypes'
  <2>1. <<>> \in Seq(Data) /\ Zero \in Data /\ BufSize \in Nat
    BY ProxyAssumption DEF Data
  <2>2. QED
    BY <1>0, <2>1 DEF PeerDies, ProxyTypes
<1>2. ASSUME NEW s \in Sessions PROVE Resting(s)' /\ Own(s)'
  <2>0. Resting(s) /\ Own(s)
    BY DEF ProxyInv
  <2>1. /\ peer'[s] = IF peer[s] = "none" THEN "none" ELSE "ended"
        /\ tcp'[s] = (IF tcp[s] = "up" THEN "reset" ELSE tcp[s])
        /\ out'[s] = <<>> /\ n'[s] = 0
        /\ UNCHANGED <<client, sent, got, handler, back, held, ws, in, mixed>>
    BY <1>0 DEF PeerDies, ProxyTypes
  <2>2. Resting(s)'
    BY <2>0, <2>1 DEF Resting, Waiting
  <2>3. /\ Linked(s)' => Linked(s) /\ Waiting(s)
        /\ Waiting(s) => out'[s] = out[s] /\ n'[s] = n[s]
    BY <2>0, <2>1 DEF Linked, Waiting, Resting
  <2>4. Reached(s)' = Reached(s)
    BY <2>1 DEF Reached
  <2>5. Brought(s)' = Brought(s)
    BY <2>1, <2>4 DEF Brought
  <2>6. (Received(s) => Received(s)') /\ (Returning(s) => Returning(s)')
    BY <2>1, <2>4, <2>5 DEF Received, Returning, Numbered
  <2>7. ASSUME Going(s), Waiting(s) PROVE Going(s)'
    <3>1. Taken(s)' = Taken(s)
      BY <2>3, <2>5, <2>7 DEF Taken
    <3>2. Forwarded(s)' = Forwarded(s)
      BY <2>3, <2>7, <3>1 DEF Forwarded
    <3>3. \A i \in 1..n'[s] : buff'[i] = <<s, Brought(s)' + i>>
      BY <2>1
    <3>4. QED
      BY <2>1, <2>3, <2>7, <3>1, <3>2, <3>3 DEF Going, Numbered
  <2>8. QED
    BY <2>0, <2>1, <2>2, <2>3, <2>6, <2>7 DEF Own
<1>3. QED
  BY <1>1, <1>2

\* A session's step, and what it does to the others.
LEMMA OwnSteps ==
  ASSUME ProxyInv, NEW s \in Sessions,
         ClientStep(s) \/ Handler(s) \/ Back(s) \/ Peer(s)
  PROVE  Resting(s)' /\ Own(s)'
BY QuietSteps, SayStep, ForwardStep, ReturnStep, BackReadStep, BackWriteStep,
   BackWriteLostStep, PeerReadStep, PeerWriteStep DEF ClientStep, Handler, Back, Peer

LEMMA OthersStay ==
  ASSUME ProxyInv, NEW s \in Sessions,
         ClientStep(s) \/ Handler(s) \/ Back(s) \/ Peer(s),
         NEW t \in Sessions, t # s
  PROVE  Resting(t)' /\ Own(t)'
<1>0. ProxyTypes /\ Resting(t) /\ Own(t)
  BY DEF ProxyInv
<1> DEFINE Same == /\ client'[t] = client[t] /\ sent'[t] = sent[t] /\ got'[t] = got[t]
                   /\ ws'[t] = ws[t] /\ out'[t] = out[t] /\ in'[t] = in[t] /\ n'[t] = n[t]
                   /\ handler'[t] = handler[t] /\ back'[t] = back[t] /\ tcp'[t] = tcp[t]
                   /\ held'[t] = held[t] /\ peer'[t] = peer[t]
<1> USE DEF proxy, echo, HandlerGoes, BackGoes
<1>1. Same
  <2>1. CASE ClientStep(s)
    BY <1>0, <2>1 DEF ProxyTypes, ClientStep, Upgrade, Say, Deafen, Quit
  <2>2. CASE Dial(s) \/ DialFails(s) \/ ReadMessage(s) \/ Forward(s)
    BY <1>0, <2>2 DEF ProxyTypes, Dial, DialFails, ReadMessage, Forward
  <2>3. CASE CheckDone(s) \/ ReadFails(s) \/ WaitReturns(s)
    BY <1>0, <2>3 DEF ProxyTypes, CheckDone, Return, ReadFails, WaitReturns
  <2>4. CASE BackCheck(s) \/ BackRead(s) \/ BackTimeout(s)
    BY <1>0, <2>4 DEF ProxyTypes, BackCheck, BackRead, BackTimeout
  <2>5. CASE BackReadFails(s) \/ BackWrite(s) \/ BackWriteLost(s)
    BY <1>0, <2>5 DEF ProxyTypes, BackReadFails, BackWrite, BackWriteLost, Break
  <2>6. CASE Peer(s)
    BY <1>0, <2>6 DEF ProxyTypes, Peer, PeerRead, PeerWrite, PeerEnds
  <2>7. QED
    BY <2>1, <2>2, <2>3, <2>4, <2>5, <2>6 DEF Handler, Back
<1>3. CASE PeerRead(s)
  <2>1. mixed'[t] = (mixed[t] \/ peer[t] = "write")
    BY <1>3 DEF PeerRead
  <2>2. QED
    BY <1>0, <1>1, <2>1, Elsewhere
<1>4. CASE ~PeerRead(s)
  <2>1. buff' = buff /\ mixed' = mixed
    BY <1>4 DEF ClientStep, Upgrade, Say, Deafen, Quit, Handler, Dial, DialFails, ReadMessage,
     Forward, CheckDone,
     Return, ReadFails, WaitReturns, Back, BackCheck, BackRead, BackTimeout, BackReadFails,
     BackWrite, BackWriteLost, Peer, PeerWrite, PeerEnds, echo
  <2>2. QED
    BY <1>0, <1>1, <2>1, Elsewhere
<1>5. QED
  BY <1>3, <1>4

LEMMA EchoStep == ProxyInv /\ [ProxyNext]_proxyVars => ProxyInv'
<1> SUFFICES ASSUME ProxyInv, [ProxyNext]_proxyVars PROVE ProxyInv'
  OBVIOUS
<1>1. ASSUME NEW s \in Sessions,
             ClientStep(s) \/ Handler(s) \/ Back(s) \/ Peer(s)
      PROVE  ProxyInv'
  BY <1>1, TypesStep, OwnSteps, OthersStay DEF ProxyInv
<1>2. CASE PeerDies
  BY <1>2, DiesStep DEF ProxyInv
<1>3. CASE UNCHANGED proxyVars
  <2>1. ProxyTypes'
    BY <1>3 DEF ProxyInv, ProxyTypes, proxyVars, proxy, echo
  <2>2. ASSUME NEW s \in Sessions PROVE Resting(s)' /\ Own(s)'
    BY <1>3, Elsewhere DEF ProxyInv, proxyVars, proxy, echo
  <2>3. QED
    BY <2>1, <2>2 DEF ProxyInv
<1>4. QED
  BY <1>1, <1>2, <1>3 DEF ProxyNext, ClientStep

\* Apart from the empty rest of the buffers, a client receives what it has sent, in
\* order and nothing twice, unless the one buffer of the echo server was overwritten
\* between the read and the write of its handler.
THEOREM OwnEchoed == ProxySpec => []EchoesOwn
<1>1. ProxyInv => EchoesOwn
  <2> SUFFICES ASSUME ProxyInv, NEW s \in Sessions, ~mixed[s] PROVE IsPrefix(got[s], Sent(s))
    BY DEF EchoesOwn
  <2>1. Received(s) /\ got[s] \in Seq(Data) /\ sent[s] \in Nat /\ Len(got[s]) \in Nat
    BY Amounts DEF ProxyInv, Own
  <2>2. Sent(s) \in Seq(Data) /\ Len(Sent(s)) = sent[s]
        /\ \A i \in 1..sent[s] : Sent(s)[i] = <<s, i>>
    <3>1. \A i \in 1..sent[s] : <<s, i>> \in Data
      BY <2>1 DEF Data
    <3>2. QED
      BY <2>1, <3>1, SeqDef, LenProperties DEF Sent
  <2>3. Len(got[s]) <= Len(Sent(s)) /\ \A i \in 1..Len(got[s]) : got[s][i] = Sent(s)[i]
    <3>1. \A i \in 1..Len(got[s]) : got[s][i] = <<s, 0 + i>> /\ i \in 1..sent[s] /\ 0 + i = i
      BY <2>1 DEF Received, Numbered
    <3>2. QED
      BY <2>1, <2>2, <3>1 DEF Received
  <2>4. SubSeq(got[s], 1, Len(got[s])) = SubSeq(Sent(s), 1, Len(got[s]))
    BY <2>1, <2>2, <2>3
  <2>5. QED
    BY <2>1, <2>3, <2>4 DEF IsPrefix
<1>2. QED
  BY InitEcho, EchoStep, <1>1, PTL DEF ProxySpec
-----------------------------------------------------------------------------
(* HanuBot: every reply was asked for, and is given once.                    *)
Known(e) == e.bad \in BOOLEAN /\ (e \in Events \/ (e.user = Bot /\ ~e.bad))

\* A goroutine works for an event that was received and, unless the one before it left
\* something behind, with what the event says; a handler was asked for by it.
Copied(m, e) == /\ m.type = e.type /\ m.user = e.user
                /\ m.channel = e.channel /\ m.text = e.text
TaskRight(t) ==
  /\ t.of \in 1..Len(events) /\ t.of < next
  /\ t = [is |-> t.is, of |-> t.of, msg |-> t.msg]
  /\ t.is = "process" \/ t.is \in Commands
  /\ Untouched(t.of) => /\ Copied(t.msg, events[t.of]) /\ ~events[t.of].bad
                        /\ t.is # "process" => t.is \in Asks(events[t.of])

\* The goroutines of an event: process alone, or one for each of some commands; what
\* was replied already is none of theirs.
Apart(t, u) == t.of = u.of => t = u \/ (t.is # u.is /\ t.is # "process" /\ u.is # "process")
Unreplied(t, r) == t.of = r.of => t.is # "process" /\ t.is # r.is

BotTypes == /\ \E S : events \in Seq(S)
            /\ \E S : replies \in Seq(S)
            /\ \A k \in DOMAIN events : Known(events[k])
            /\ next \in Nat \ {0} /\ next <= Len(events) + 1
            /\ registered \subseteq Commands

BotInv ==
  /\ BotTypes
  /\ bot # "listening" => tasks = {} /\ replies = <<>>
  /\ Untouched(next) => msg = Empty
  /\ \A t \in tasks : TaskRight(t)
  /\ \A t, u \in tasks : Apart(t, u)
  /\ \A j \in DOMAIN replies : replies[j].of < next
  /\ \A j \in DOMAIN replies : \A t \in tasks : Unreplied(t, replies[j])
  /\ RepliesJustified

LEMMA FirstOf ==
  ASSUME NEW S, NEW q \in Seq(S), Len(q) >= 1 PROVE SubSeq(q, 1, 1) = <<q[1]>>
<1>1. Len(q) \in Nat /\ q[1] \in S
  OBVIOUS
<1>2. \A i \in 1..1 : q[i] \in S
  BY <1>1
<1>3. /\ SubSeq(q, 1, 1) \in Seq(S)
      /\ Len(SubSeq(q, 1, 1)) = IF 1 <= 1 THEN 1 - 1 + 1 ELSE 0
      /\ \A i \in 1..(1 - 1 + 1) : SubSeq(q, 1, 1)[i] = q[1 + i - 1]
  BY <1>2, SubSeqProperties
<1>4. <<q[1]>> \in Seq(S) /\ Len(<<q[1]>>) = 1 /\ <<q[1]>>[1] = q[1]
  BY <1>1
<1>5. Len(SubSeq(q, 1, 1)) = Len(<<q[1]>>)
  BY <1>3, <1>4
<1>6. \A i \in 1..Len(SubSeq(q, 1, 1)) : SubSeq(q, 1, 1)[i] = <<q[1]>>[i]
  <2>1. Len(SubSeq(q, 1, 1)) = 1 /\ SubSeq(q, 1, 1)[1] = q[1]
    BY <1>3
  <2>2. \A i \in 1..1 : i = 1
    OBVIOUS
  <2>3. QED
    BY <1>4, <2>1, <2>2
<1>7. QED
  BY <1>3, <1>4, <1>5, <1>6, SeqEqual

LEMMA HelpAt ==
  ASSUME NEW S, NEW b \in Seq(S)
  PROVE  /\ IsPrefix(<<help>>, b) <=> b # <<>> /\ Head(b) = help
         /\ IsSuffix(<<help>>, b) <=> b # <<>> /\ Last(b) = help
<1> DEFINE r == Reverse(b)
<1>1. Len(b) \in Nat /\ Len(<<help>>) = 1 /\ <<help>>[1] = help
  OBVIOUS
<1>2. r \in Seq(S) /\ Len(r) = Len(b) /\ (Len(b) >= 1 => r[1] = Last(b))
  <2>1. r \in [1..Len(b) -> S]
    BY <1>1 DEF Reverse
  <2>2. r \in Seq(S) /\ Len(r) = Len(b)
    BY <1>1, <2>1, SeqDef, LenProperties
  <2>3. ASSUME Len(b) >= 1 PROVE r[1] = Last(b)
    BY <1>1, <2>3 DEF Reverse, Last
  <2>4. QED
    BY <2>2, <2>3
<1>3. Reverse(<<help>>) = <<help>>
  BY DEF Reverse
<1>4. ASSUME NEW q \in Seq(S)
      PROVE  IsPrefix(<<help>>, q) <=> Len(q) >= 1 /\ q[1] = help
  <2>0. Len(q) \in Nat
    OBVIOUS
  <2>1. SubSeq(<<help>>, 1, 1) = <<help>>
    <3>1. <<help>> \in Seq({help}) /\ Len(<<help>>) >= 1
      BY <1>1
    <3>2. QED
      BY <1>1, <3>1, FirstOf
  <2>2. Len(q) >= 1 => SubSeq(q, 1, 1) = <<q[1]>>
    BY FirstOf
  <2>3. <<q[1]>> = <<help>> <=> q[1] = help
    OBVIOUS
  <2>4. QED
    BY <1>1, <2>0, <2>1, <2>2, <2>3 DEF IsPrefix
<1>5. b # <<>> <=> Len(b) >= 1
  BY <1>1, EmptySeq
<1>6. Len(b) >= 1 => Head(b) = b[1]
  OBVIOUS
<1> HIDE DEF r
<1>7. IsSuffix(<<help>>, b) <=> IsPrefix(<<help>>, r)
  BY <1>3 DEF IsSuffix, r
<1>8. QED
  BY <1>2, <1>4, <1>5, <1>6, <1>7

\* What an event asks for is what process does for it.
LEMMA AsksIs ==
  ASSUME NEW e, Known(e), ~e.bad, NEW m, Copied(m, e)
  PROVE  Asks(e) = IF ~IsRelevantFor(m) THEN {}
                   ELSE IF IsHelpRequest(Text(m.text)) THEN {"help"}
                   ELSE {c \in registered : Matches(c, Text(m.text))}
<1>1. CASE ~IsRelevantFor(m)
  <2>1. e.type # "message" \/ e.user = Bot \/ (e.channel # "D" /\ Mention(e.text) = "none")
    BY <1>1 DEF Copied, IsRelevantFor, IsFrom, IsDirectMessage
  <2>2. QED
    BY <1>1, <2>1 DEF Asks
<1>2. CASE IsRelevantFor(m)
  <2> DEFINE t == Stripped(e.text)
             begins == t.mention = "none" /\ IsPrefix(<<help>>, t.body)
             ends == IsSuffix(<<help>>, t.body)
  <2>1. e.type = "message" /\ e.user # Bot /\ ~(e.channel # "D" /\ Mention(e.text) = "none")
    BY <1>2 DEF Copied, IsRelevantFor, IsFrom, IsDirectMessage
  <2>2. Asks(e) = IF begins \/ ends THEN {"help"}
                  ELSE {c \in registered : t.mention = "none" /\ t.body \in Pattern[c]}
    BY <2>1 DEF Asks
  <2>3. \E S : t.body \in Seq(S)
    <3>1. \E S : Body(e.text) \in Seq(S)
      <4>1. <<>> \in Seq({})
        OBVIOUS
      <4>2. e.text = None \/ e.text.body \in Seq(ToSet(e.text.body))
        BY <2>1, BotAssumption DEF Known
      <4>3. QED
        BY <4>1, <4>2 DEF Body
    <3>2. PICK S : Body(e.text) \in Seq(S)
      BY <3>1
    <3>3. StripLinkMarkup(Body(e.text)) \in Seq({Plain(k) : k \in S})
      BY <3>2 DEF StripLinkMarkup
    <3>4. QED
      BY <3>3 DEF Stripped
  <2>4. IsHelpRequest(t) <=> begins \/ ends
    BY <2>3, HelpAt DEF IsHelpRequest
  <2>5. Text(m.text) = t
    BY DEF Text, Copied
  <2>6. \A c : Matches(c, t) <=> t.mention = "none" /\ t.body \in Pattern[c]
    BY DEF Matches
  <2> HIDE DEF t, begins, ends
  <2>7. Asks(e) = IF IsHelpRequest(t) THEN {"help"} ELSE {c \in registered : Matches(c, t)}
    BY <2>2, <2>4, <2>6
  <2>8. QED
    BY <1>2, <2>5, <2>7
<1>3. QED
  BY <1>1, <1>2

\* Where no event comes or goes, what is right stays right.
LEMMA EventsKept ==
  ASSUME NEW k \in 1..Len(events), Len(events) \in Nat, Len(events)' \in Nat,
         Len(events) <= Len(events)', registered' = registered,
         \A i \in 1..Len(events) : events'[i] = events[i]
  PROVE  /\ events'[k] = events[k] /\ k \in 1..Len(events)'
         /\ Untouched(k)' <=> Untouched(k)
         /\ Asks(events[k])' = Asks(events[k])
<1>1. events'[k] = events[k] /\ k \in 1..Len(events)'
  OBVIOUS
<1>2. k # 1 => k - 1 \in 1..Len(events)
  OBVIOUS
<1>3. Untouched(k)' <=> Untouched(k)
  BY <1>2 DEF Untouched
<1>4. Asks(events[k])' = Asks(events[k])
  BY <1>1 DEF Asks
<1>5. QED
  BY <1>1, <1>3, <1>4

LEMMA InitBot == BotInit => BotInv
<1> SUFFICES ASSUME BotInit PROVE BotInv
  OBVIOUS
<1>1. events = <<>> /\ replies = <<>> /\ tasks = {} /\ registered = {} /\ next = 1 /\ msg = Empty
  BY DEF BotInit
<1>2. <<>> \in Seq({}) /\ Len(<<>>) = 0 /\ DOMAIN <<>> = {}
  OBVIOUS
<1>3. BotTypes
  BY <1>1, <1>2 DEF BotTypes
<1>4. RepliesJustified
  BY <1>1, <1>2 DEF RepliesJustified
<1>5. QED
  BY <1>1, <1>2, <1>3, <1>4 DEF BotInv

\* A step of neither Slack nor a goroutine.
LEMMA QuietBot ==
  ASSUME BotInv, events' = events, next' = next, msg' = msg, tasks' = tasks,
         replies' = replies, bot' # "listening" => bot # "listening",
         registered' \subseteq Commands, registered' = registered \/ bot # "listening"
  PROVE  BotInv'
<1>1. BotTypes'
  BY DEF BotInv, BotTypes
<1>2. CASE registered' = registered
  <2>1. \A k : (Untouched(k)' <=> Untouched(k)) /\ \A e : Asks(e)' = Asks(e)
    BY <1>2 DEF Untouched, Asks
  <2>2. \A t \in tasks : TaskRight(t)'
    BY <2>1 DEF BotInv, TaskRight
  <2>3. RepliesJustified'
    BY <2>1 DEF BotInv, RepliesJustified, Justified
  <2>4. Untouched(next)' => msg' = Empty
    BY <2>1 DEF BotInv
  <2>5. QED
    BY <1>1, <2>2, <2>3, <2>4 DEF BotInv
<1>3. CASE bot # "listening"
  <2>1. tasks = {} /\ replies = <<>> /\ DOMAIN <<>> = {}
    BY <1>3 DEF BotInv
  <2>2. RepliesJustified'
    BY <2>1 DEF RepliesJustified
  <2>3. Untouched(next)' => msg' = Empty
    BY DEF BotInv, Untouched
  <2>4. QED
    BY <1>1, <2>1, <2>2, <2>3 DEF BotInv
<1>4. QED
  BY <1>2, <1>3

\* Slack sends one event more.
LEMMA SentStep ==
  ASSUME BotInv, NEW e, Known(e), events' = Append(events, e),
         UNCHANGED <<bot, registered, next, msg, tasks, replies>>
  PROVE  BotInv'
<1>1. PICK S : events \in Seq(S)
  BY DEF BotInv, BotTypes
<1>2. /\ events' \in Seq(S \union {e}) /\ Len(events') = Len(events) + 1 /\ Len(events) \in Nat
      /\ \A i \in 1..Len(events) : events'[i] = events[i]
      /\ events'[Len(events) + 1] = e
  <2>1. events \in Seq(S \union {e}) /\ e \in S \union {e}
    BY <1>1
  <2>2. QED
    BY <2>1, AppendProperties
<1>3. DOMAIN events = 1..Len(events) /\ DOMAIN events' = 1..(Len(events) + 1)
  BY <1>1, <1>2
<1>4. BotTypes'
  <2>1. \A k \in DOMAIN events' : Known(events'[k])
    BY <1>2, <1>3 DEF BotInv, BotTypes, Known
  <2>2. next' <= Len(events') + 1
    BY <1>2 DEF BotInv, BotTypes
  <2>3. QED
    BY <1>2, <2>1, <2>2 DEF BotInv, BotTypes
<1>5. ASSUME NEW k \in 1..Len(events)
      PROVE  /\ events'[k] = events[k] /\ k \in 1..Len(events')
             /\ Untouched(k)' <=> Untouched(k)
             /\ Asks(events[k])' = Asks(events[k])
  BY <1>2, EventsKept
<1>6. \A t \in tasks : TaskRight(t)'
  BY <1>5 DEF BotInv, TaskRight
<1>7. \A j \in DOMAIN replies : Justified(replies[j])'
  BY <1>3, <1>5 DEF BotInv, RepliesJustified, Justified
<1>8. Untouched(next)' => msg' = Empty
  <2>1. next # 1 => next - 1 \in 1..Len(events)
    BY <1>2 DEF BotInv, BotTypes
  <2>2. Untouched(next)' <=> Untouched(next)
    BY <1>2, <2>1 DEF Untouched
  <2>3. QED
    BY <2>2 DEF BotInv
<1>9. QED
  BY <1>4, <1>6, <1>7, <1>8 DEF BotInv, RepliesJustified

LEMMA ReceiveStep == ASSUME BotInv, Receive PROVE BotInv'
<1> DEFINE e == events[next]
           m == Decoded(e)
           task == [is |-> "process", of |-> next, msg |-> m]
<1>1. /\ next \in 1..Len(events) /\ next' = next + 1 /\ Len(events) \in Nat /\ Known(e)
      /\ DOMAIN events = 1..Len(events)
      /\ next \in Nat \ {0} /\ bot = "listening"
      /\ UNCHANGED <<bot, registered, events, replies>>
  BY DEF BotInv, BotTypes, Receive
<1>2. BotTypes'
  BY <1>1 DEF BotInv, BotTypes
<1>3. \A k : (Untouched(k)' <=> Untouched(k)) /\ \A x : Asks(x)' = Asks(x)
  BY <1>1 DEF Untouched, Asks
<1>4. /\ \A t \in tasks : TaskRight(t)' /\ t.of < next
      /\ \A j \in DOMAIN replies : replies'[j].of < next'
      /\ RepliesJustified'
  <2>1. \A t \in tasks : TaskRight(t)'
    BY <1>1, <1>3 DEF BotInv, TaskRight
  <2>2. \A j \in DOMAIN replies : replies[j].of \in 1..Len(events)
    BY <1>1 DEF BotInv, RepliesJustified, Justified
  <2>3. \A j \in DOMAIN replies : replies[j].of < next + 1
    BY <1>1, <2>2 DEF BotInv
  <2>4. RepliesJustified'
    BY <1>1, <1>3 DEF BotInv, RepliesJustified, Justified
  <2>5. QED
    BY <1>1, <2>1, <2>3, <2>4 DEF BotInv, TaskRight
<1>5. Untouched(next + 1) <=> ~e.bad
  BY <1>1 DEF Untouched
<1>6. CASE e.bad
  <2>1. tasks' = tasks
    BY <1>6 DEF Receive
  <2>2. ~Untouched(next)'
    BY <1>1, <1>3, <1>5, <1>6
  <2>3. QED
    BY <1>1, <1>2, <1>4, <2>1, <2>2 DEF BotInv
<1>7. CASE ~e.bad
  <2>1. tasks' = tasks \union {task} /\ msg' = Empty
    BY <1>7 DEF Receive, Cleaned
  <2>2. Untouched(next) => Copied(m, e)
    <3>1. ASSUME msg = Empty PROVE \A f \in Fields : m[f] = e[f]
      BY <3>1 DEF Decoded, Empty
    <3>2. QED
      BY <3>1 DEF BotInv, Copied, Fields
  <2> HIDE DEF e, m
  <2>3. /\ task.is = "process" /\ task.of = next /\ task.msg = m
        /\ task = [is |-> task.is, of |-> task.of, msg |-> task.msg]
    OBVIOUS
  <2> HIDE DEF task
  <2>4. ASSUME NEW t, t = task PROVE TaskRight(t)'
    <3>1. /\ t.is = "process" /\ t.of = next /\ t.msg = m
          /\ t = [is |-> t.is, of |-> t.of, msg |-> t.msg]
      BY <2>3, <2>4
    <3>3. t.of \in 1..Len(events') /\ t.of < next'
      BY <1>1, <3>1
    <3>4. Untouched(t.of)' => Copied(t.msg, events'[t.of]) /\ ~events'[t.of].bad
      BY <1>1, <1>3, <1>7, <2>2, <3>1 DEF e
    <3>5. QED
      BY <3>1, <3>3, <3>4 DEF TaskRight
  <2>5. \A t, u \in tasks' : Apart(t, u)
    BY <1>1, <1>4, <2>1, <2>3 DEF BotInv, Apart
  <2>6. \A j \in DOMAIN replies : \A t \in tasks' : Unreplied(t, replies[j])
    BY <1>1, <2>1, <2>3 DEF BotInv, Unreplied
  <2>7. \A t \in tasks' : TaskRight(t)'
    BY <1>4, <2>1, <2>4
  <2>8. QED
    BY <1>1, <1>2, <1>4, <2>1, <2>5, <2>6, <2>7 DEF BotInv
<1>8. QED
  BY <1>6, <1>7

\* A goroutine has run: it is gone, and what it started instead belongs to its event.
LEMMA RepliedIs ==
  ASSUME NEW r, \E S : replies \in Seq(S), replies' = Replied(r)
  PROVE  \/ replies' = replies
         \/ /\ DOMAIN replies = 1..Len(replies) /\ Len(replies) \in Nat
            /\ DOMAIN replies' = 1..(Len(replies) + 1)
            /\ \A j \in 1..Len(replies) : replies'[j] = replies[j]
            /\ replies'[Len(replies) + 1] = r
            /\ \E S : replies' \in Seq(S)
<1>1. CASE ~socket
  BY <1>1 DEF Replied
<1>2. CASE socket
  <2>1. PICK S : replies \in Seq(S)
    OBVIOUS
  <2>2. replies' = Append(replies, r) /\ replies \in Seq(S \union {r}) /\ r \in S \union {r}
    BY <1>2, <2>1 DEF Replied
  <2>3. /\ replies' \in Seq(S \union {r}) /\ Len(replies') = Len(replies) + 1
        /\ \A i \in 1..Len(replies) : replies'[i] = replies[i]
        /\ replies'[Len(replies) + 1] = r
    BY <2>2, AppendProperties
  <2>4. /\ DOMAIN replies = 1..Len(replies) /\ Len(replies) \in Nat
        /\ DOMAIN replies' = 1..Len(replies')
    BY <2>2, <2>3
  <2>5. QED
    BY <2>3, <2>4
<1>3. QED
  BY <1>1, <1>2

LEMMA RepliesStep ==
  ASSUME BotInv, NEW task \in tasks, NEW r, replies' = Replied(r),
         tasks' = tasks \ {task}, UNCHANGED <<bot, registered, socket, events, next, msg>>,
         r.of = task.of, Justified(r),
         \A t \in tasks \ {task} : Unreplied(t, r),
         \A j \in DOMAIN replies : replies[j].of = r.of => replies[j].is # r.is
  PROVE  BotInv'
<1>1. \A k : (Untouched(k)' <=> Untouched(k)) /\ \A e : Asks(e)' = Asks(e)
  BY DEF Untouched, Asks
<1>2. \A x : Justified(x)' <=> Justified(x)
  BY <1>1 DEF Justified
<1>3. \A t : TaskRight(t)' <=> TaskRight(t)
  BY <1>1 DEF TaskRight
<1>4. Untouched(next)' => msg' = Empty
  BY <1>1 DEF BotInv
<1>5. bot = "listening"
  BY DEF BotInv
<1>6. r.of < next
  BY DEF BotInv, TaskRight
<1>7. CASE replies' = replies
  BY <1>2, <1>3, <1>4, <1>5, <1>7 DEF BotInv, BotTypes, RepliesJustified
<1>8. CASE /\ DOMAIN replies = 1..Len(replies) /\ Len(replies) \in Nat
           /\ DOMAIN replies' = 1..(Len(replies) + 1)
           /\ \A j \in 1..Len(replies) : replies'[j] = replies[j]
           /\ replies'[Len(replies) + 1] = r
           /\ \E S : replies' \in Seq(S)
  <2>1. BotTypes'
    BY <1>8 DEF BotInv, BotTypes
  <2>2. \A j \in DOMAIN replies' :
          \/ j \in DOMAIN replies /\ replies'[j] = replies[j]
          \/ j = Len(replies) + 1 /\ replies'[j] = r
    BY <1>8
  <2>3. ASSUME NEW j \in DOMAIN replies', NEW x, x = replies'[j]
        PROVE  Justified(x)' /\ x.of < next /\ \A t \in tasks' : Unreplied(t, x)
    BY <1>2, <1>6, <2>2, <2>3 DEF BotInv, RepliesJustified
  <2>4. \A i, j \in DOMAIN replies' :
          replies'[i].of = replies'[j].of /\ replies'[i].is = replies'[j].is => i = j
    BY <2>2 DEF BotInv, RepliesJustified
  <2>5. RepliesJustified'
    BY <2>3, <2>4 DEF RepliesJustified
  <2>6. QED
    BY <1>3, <1>4, <1>5, <2>1, <2>3, <2>5 DEF BotInv
<1>9. QED
  BY <1>7, <1>8, RepliedIs DEF BotInv, BotTypes

LEMMA TasksStep ==
  ASSUME BotInv, NEW task \in tasks, task.is = "process", NEW C, C \subseteq registered,
         tasks' = (tasks \ {task}) \union {[task EXCEPT !.is = c] : c \in C},
         UNCHANGED <<bot, registered, socket, events, next, msg, replies>>,
         \A c \in C : Untouched(task.of) => c \in Asks(events[task.of])
  PROVE  BotInv'
<1>1. \A k : (Untouched(k)' <=> Untouched(k)) /\ \A e : Asks(e)' = Asks(e)
  BY DEF Untouched, Asks
<1>2. \A x : Justified(x)' <=> Justified(x)
  BY <1>1 DEF Justified
<1>3. \A t : TaskRight(t)' <=> TaskRight(t)
  BY <1>1 DEF TaskRight
<1>4. RepliesJustified' /\ BotTypes' /\ (Untouched(next)' => msg' = Empty) /\ bot = "listening"
  BY <1>1, <1>2 DEF BotInv, BotTypes, RepliesJustified
<1>5. \A t \in tasks' : t \in tasks \ {task} \/ \E c \in C : t = [task EXCEPT !.is = c]
  OBVIOUS
<1>6. ASSUME NEW c \in C, NEW t, t = [task EXCEPT !.is = c]
      PROVE  /\ t.is = c /\ t.of = task.of /\ t.msg = task.msg
             /\ c \in Commands /\ c # "process"
  <2>1. task = [is |-> task.is, of |-> task.of, msg |-> task.msg]
    BY DEF BotInv, TaskRight
  <2>2. t = [is |-> c, of |-> task.of, msg |-> task.msg]
    BY <1>6, <2>1
  <2>3. c \in Commands
    BY DEF BotInv, BotTypes
  <2>4. QED
    BY <2>2, <2>3, BotAssumption
<1>7. \A t \in tasks' : TaskRight(t)'
  <2>1. ASSUME NEW c \in C, NEW t, t = [task EXCEPT !.is = c] PROVE TaskRight(t)
    BY <1>6, <2>1 DEF BotInv, TaskRight
  <2>2. QED
    BY <1>3, <1>5, <2>1 DEF BotInv
<1>8. \A t, u \in tasks' : Apart(t, u)
  <2>1. \A t \in tasks \ {task} : t.of # task.of
    BY DEF BotInv, Apart
  <2>2. ASSUME NEW t \in tasks', NEW u \in tasks', t.of = u.of PROVE Apart(t, u)
    <3>1. CASE t \in tasks \ {task} /\ u \in tasks \ {task}
      BY <3>1 DEF BotInv
    <3>2. CASE \E c, d \in C : t = [task EXCEPT !.is = c] /\ u = [task EXCEPT !.is = d]
      <4>1. PICK c, d \in C : t = [task EXCEPT !.is = c] /\ u = [task EXCEPT !.is = d]
        BY <3>2
      <4>2. t.is = c /\ c # "process" /\ u.is = d /\ d # "process"
        BY <1>6, <4>1
      <4>3. c = d => t = u
        BY <4>1
      <4>4. QED
        BY <4>2, <4>3 DEF Apart
    <3>3. QED
      BY <1>5, <1>6, <2>1, <2>2, <3>1, <3>2
  <2>3. QED
    BY <2>2 DEF Apart
<1>9. \A j \in DOMAIN replies : \A t \in tasks' : Unreplied(t, replies[j])
  <2>1. \A j \in DOMAIN replies : replies[j].of # task.of
    BY DEF BotInv, Unreplied
  <2>2. QED
    BY <1>5, <1>6, <2>1 DEF BotInv, Unreplied
<1>10. QED
  BY <1>4, <1>7, <1>8, <1>9 DEF BotInv

\* What a task replies goes where its event came from.
LEMMA ReplyIs ==
  ASSUME BotInv, NEW task \in tasks, NEW t, t.of = task.of, t.msg = task.msg, NEW body,
         NEW r, r = Reply(t, body), Untouched(task.of) => t.is \in Asks(events[task.of])
  PROVE  r.of = task.of /\ r.is = t.is /\ Justified(r)
<1>1. /\ r.of = task.of /\ r.is = t.is /\ r.channel = task.msg.channel
      /\ r.to = To(task.msg)
  BY DEF Reply
<1>2. /\ task.of \in DOMAIN events
      /\ Untouched(task.of) => Copied(task.msg, events[task.of])
  BY DEF BotInv, BotTypes, TaskRight
<1>3. QED
  BY <1>1, <1>2 DEF Justified, To, IsDirectMessage, Copied

LEMMA processStep == ASSUME BotInv, NEW task \in tasks, process(task) PROVE BotInv'
<1> DEFINE e == events[task.of]
           asked == {c \in registered : Matches(c, Text(task.msg.text))}
<1>1. /\ task.is = "process" /\ UNCHANGED <<bot, registered, socket, events, next, msg>>
  BY DEF process
<1>2. /\ task = [is |-> task.is, of |-> task.of, msg |-> task.msg] /\ Known(e)
      /\ Untouched(task.of) => Copied(task.msg, e) /\ ~e.bad
  BY DEF BotInv, BotTypes, TaskRight
<1>3. Untouched(task.of) =>
        Asks(e) = IF ~IsRelevantFor(task.msg) THEN {}
                  ELSE IF IsHelpRequest(Text(task.msg.text)) THEN {"help"}
                  ELSE asked
  BY <1>2, AsksIs
<1> HIDE DEF e, asked
<1>4. CASE ~IsRelevantFor(task.msg)
  <2>1. tasks' = tasks \ {task} /\ replies' = replies
    BY <1>4 DEF process
  <2>2. PICK C : C = {}
    OBVIOUS
  <2>3. tasks' = (tasks \ {task}) \union {[task EXCEPT !.is = c] : c \in C}
    BY <2>1, <2>2
  <2>4. C \subseteq registered /\ \A c \in C : Untouched(task.of) => c \in Asks(events[task.of])
    BY <2>2
  <2>5. QED
    BY <1>1, <2>1, <2>3, <2>4, TasksStep
<1>5. CASE IsRelevantFor(task.msg) /\ IsHelpRequest(Text(task.msg.text))
  <2> DEFINE t == [task EXCEPT !.is = "help"]
  <2>1. t.is = "help" /\ t.of = task.of /\ t.msg = task.msg
    BY <1>2
  <2>2. tasks' = tasks \ {task} /\ replies' = Replied(Reply(t, <<Word("Thanks")>>))
    BY <1>5 DEF process, sendHelp
  <2> HIDE DEF t
  <2>3. PICK r : r = Reply(t, <<Word("Thanks")>>)
    OBVIOUS
  <2>4. Untouched(task.of) => t.is \in Asks(events[task.of])
    BY <1>3, <1>5, <2>1 DEF e
  <2>5. r.of = task.of /\ Justified(r)
    BY <2>1, <2>3, <2>4, ReplyIs
  <2>6. \A u \in tasks \ {task} : Unreplied(u, r)
    BY <1>1, <2>5 DEF BotInv, Apart, Unreplied
  <2>7. \A j \in DOMAIN replies : replies[j].of # r.of
    BY <1>1, <2>5 DEF BotInv, Unreplied
  <2>8. QED
    BY <1>1, <2>2, <2>3, <2>5, <2>6, <2>7, RepliesStep
<1>6. CASE IsRelevantFor(task.msg) /\ ~IsHelpRequest(Text(task.msg.text))
  <2>1. /\ tasks' = (tasks \ {task}) \union {[task EXCEPT !.is = c] : c \in asked}
        /\ replies' = replies
    BY <1>6 DEF process, searchCommand, asked
  <2>2. asked \subseteq registered
    BY DEF asked
  <2>3. \A c \in asked : Untouched(task.of) => c \in Asks(events[task.of])
    BY <1>3, <1>6 DEF e
  <2>4. QED
    BY <1>1, <2>1, <2>2, <2>3, TasksStep
<1>7. QED
  BY <1>4, <1>5, <1>6

LEMMA HandleStep == ASSUME BotInv, NEW task \in tasks, Handle(task) PROVE BotInv'
<1>1. /\ task.is \in Commands /\ tasks' = tasks \ {task}
      /\ replies' = Replied(Reply(task, Answer[task.is]))
      /\ UNCHANGED <<bot, registered, socket, events, next, msg>>
  BY DEF Handle
<1>2. task.is # "process"
  BY <1>1, BotAssumption
<1>3. PICK r : r = Reply(task, Answer[task.is])
  OBVIOUS
<1>4. Untouched(task.of) => task.is \in Asks(events[task.of])
  BY <1>2 DEF BotInv, TaskRight
<1>5. r.of = task.of /\ r.is = task.is /\ Justified(r)
  BY <1>3, <1>4, ReplyIs
<1>6. \A u \in tasks \ {task} : Unreplied(u, r)
  BY <1>5 DEF BotInv, Apart, Unreplied
<1>7. \A j \in DOMAIN replies : replies[j].of = r.of => replies[j].is # r.is
  BY <1>5 DEF BotInv, Unreplied
<1>8. QED
  BY <1>1, <1>3, <1>5, <1>6, <1>7, RepliesStep

LEMMA BotStep == BotInv /\ [BotNext]_botVars => BotInv'
<1> SUFFICES ASSUME BotInv, [BotNext]_botVars PROVE BotInv'
  OBVIOUS
<1>1. CASE Handshake \/ HandshakeFails \/ Listen \/ Disconnects \/ UNCHANGED botVars
  <2>1. /\ events' = events /\ next' = next /\ msg' = msg /\ tasks' = tasks
        /\ replies' = replies /\ registered' = registered
        /\ bot' # "listening" => bot # "listening"
    BY <1>1 DEF Handshake, HandshakeFails, Listen, Disconnects, botVars
  <2>2. registered' \subseteq Commands
    BY <2>1 DEF BotInv, BotTypes
  <2>3. QED
    BY <2>1, <2>2, QuietBot
<1>2. CASE \E c \in Commands : Register(c)
  <2>1. /\ UNCHANGED <<bot, events, next, msg, tasks, replies>> /\ bot # "listening"
        /\ registered' \subseteq Commands
    BY <1>2 DEF Register, BotInv, BotTypes
  <2>2. QED
    BY <2>1, QuietBot
<1>3. CASE SlackSends
  <2>1. PICK e \in Events : events' = Append(events, e)
    BY <1>3 DEF SlackSends
  <2>2. Known(e)
    BY BotAssumption DEF Known
  <2>3. QED
    BY <1>3, <2>1, <2>2, SentStep DEF SlackSends
<1>4. CASE SlackEchoes
  <2>1. PICK e : /\ events' = Append(events, e)
                 /\ \E k \in DOMAIN replies :
                      e = Event("message", Bot, replies[k].channel, replies[k].text, FALSE)
    BY <1>4 DEF SlackEchoes
  <2>2. Known(e)
    BY <2>1 DEF Known, Event
  <2>3. QED
    BY <1>4, <2>1, <2>2, SentStep DEF SlackEchoes
<1>5. CASE Receive
  BY <1>5, ReceiveStep
<1>6. CASE Run
  BY <1>6, processStep, HandleStep DEF Run
<1>7. QED
  BY <1>1, <1>2, <1>3, <1>4, <1>5, <1>6 DEF BotNext

\* Every reply goes to the channel and, in public, to the sender of a message that by
\* itself asks for it, which is never one of the bot's own, and is given once.
THEOREM Justifiable == BotSpec => []RepliesJustified
<1>1. BotInv => RepliesJustified
  BY DEF BotInv
<1>2. QED
  BY InitBot, BotStep, <1>1, PTL DEF BotSpec
-----------------------------------------------------------------------------
(* GracefulRestart, for any clients and any number of processes and faults.  *)
USE RestartAssumption DEF Procs
-----------------------------------------------------------------------------
Types == /\ proc \in [Procs -> ProcStates] /\ sock \in [Procs -> Nat]
         /\ conn \in [Conns -> ConnStates] /\ at \in [Conns -> Nat]
         /\ slow \in BOOLEAN /\ trouble \in BOOLEAN

\* The first server has no listener yet, and there is no other.
Fresh == /\ proc[1] \in {"boot", "create"}
         /\ \A p \in Procs : sock[p] = 0 /\ (p # 1 => proc[p] = "none")

\* Some process has the listener and did not begin to shut down; the listener is
\* that of the first server.
Serving == /\ proc[1] \notin {"none", "boot", "create"}
           /\ \E p \in Procs : sock[p] = 1 /\ proc[p] \in {"boot", "bound", "wait"}

\* What each process holds, and that nobody was turned away, without a trouble.
Holds == \A p \in Procs :
  /\ sock[p] \in {0, 1}
  /\ proc[p] \in {"bound", "wait", "closing"} => sock[p] = 1
  /\ proc[p] = "boot" => Fresh \/ sock[p] = 1
  /\ proc[p] = "create" => Fresh

NoneTurnedAway == \A c \in Conns : /\ conn[c] \notin {"refused", "reset"}
                                   /\ conn[c] = "queued" => at[c] = 1

Calm == Holds /\ (Fresh \/ Serving) /\ NoneTurnedAway

NoneCut == \A c \in Conns : conn[c] = "cut" => slow \/ trouble

RestartInv == Types /\ (~trouble => Calm) /\ NoneCut

LEMMA InitRestart == RestartInit => RestartInv
<1> SUFFICES ASSUME RestartInit PROVE RestartInv
  OBVIOUS
<1>1. Types
  BY DEF RestartInit, Types, ProcStates, ConnStates
<1>2. Fresh
  BY DEF RestartInit, Fresh
<1>3. Calm /\ NoneCut
  BY <1>2 DEF RestartInit, Calm, Holds, NoneTurnedAway, NoneCut
<1>4. QED
  BY <1>1, <1>3 DEF RestartInv

\* As long as a process has the listener, its queue is not reset.
LEMMA NotReset ==
  ASSUME Types, NoneTurnedAway, NEW s, NEW q \in Procs, s[q] = 1
  PROVE  Reset(s) = conn
<1>1. 1 \in Sockets(s)
  BY DEF Sockets
<1>2. \A c \in Conns : ~(conn[c] = "queued" /\ at[c] \notin Sockets(s))
  BY <1>1 DEF NoneTurnedAway
<1>3. Reset(s) = [c \in Conns |-> conn[c]]
  BY <1>2 DEF Reset
<1>4. QED
  BY <1>3 DEF Types

LEMMA ResetTypes == ASSUME Types, NEW s PROVE Reset(s) \in [Conns -> ConnStates]
BY DEF Types, Reset, ConnStates

\* A step that leaves the connections, and after which a process has the listener
\* if one had it.
LEMMA Keeps ==
  ASSUME RestartInv, UNCHANGED <<conn, at>>, slow' = slow, Types',
         trouble => trouble',
         ~trouble' /\ Calm => Holds' /\ (Fresh' \/ Serving')
  PROVE  RestartInv'
BY DEF RestartInv, Calm, NoneTurnedAway, NoneCut, Types
-----------------------------------------------------------------------------
(* One lemma per action, or per group of actions that leave the listener.  *)
LEMMA Starts ==
  ASSUME RestartInv, NEW p \in Procs,
         Import(p) \/ NothingToImport(p) \/ CreateFails(p) \/ Notify(p)
  PROVE  RestartInv'
<1> USE DEF MainGoes, history
<1>1. /\ UNCHANGED <<serve, sock, conn, at, faults, slow, trouble>>
      /\ \E pc \in ProcStates : proc' = [proc EXCEPT ![p] = pc]
  BY DEF Import, NothingToImport, CreateFails, Notify, ProcStates
<1>2. Types /\ Types'
  BY <1>1 DEF RestartInv, Types
<1>3. ASSUME ~trouble, Calm PROVE Holds' /\ (Fresh' \/ Serving')
  <2> USE <1>2, <1>3 DEF Types
  <2>1. CASE Import(p)
    <3>1. Serving /\ sock[p] = 1 /\ ~Fresh
      BY <2>1 DEF Import, Calm, Holds, Fresh
    <3>2. Serving' /\ Holds'
      BY <1>1, <2>1, <3>1 DEF Import, Calm, Holds, Fresh, Serving
    <3>3. QED
      BY <3>2
  <2>2. CASE NothingToImport(p)
    <3>1. Fresh /\ p = 1
      BY <2>2 DEF NothingToImport, Calm, Holds, Fresh
    <3>2. Fresh'
      BY <1>1, <2>2, <3>1 DEF NothingToImport, Fresh
    <3>3. Holds'
      BY <1>1, <2>2, <3>1, <3>2 DEF NothingToImport, Fresh, Holds
    <3>4. QED
      BY <3>2, <3>3
  <2>3. CASE CreateFails(p)
    <3>1. Fresh
      BY <2>3 DEF CreateFails, Calm, Holds
    <3>2. Sockets(sock) = {}
      BY <3>1 DEF Fresh, Sockets
    <3>3. QED
      BY <2>3, <3>2 DEF CreateFails, AddressFree
  <2>4. CASE Notify(p)
    <3>1. Serving /\ ~Fresh
      BY <2>4 DEF Notify, Calm, Holds, Fresh
    <3>2. Serving' /\ Holds'
      BY <1>1, <2>4, <3>1 DEF Notify, Calm, Holds, Fresh, Serving
    <3>3. QED
      BY <3>2
  <2>5. QED
    BY <2>1, <2>2, <2>3, <2>4
<1>4. QED
  BY <1>1, <1>2, <1>3, Keeps DEF Types

LEMMA Creates == ASSUME RestartInv, NEW p \in Procs, Create(p) PROVE RestartInv'
<1> USE DEF MainGoes, history
<1>1. /\ UNCHANGED <<serve, conn, at, faults, slow, trouble>> /\ proc[p] = "create"
      /\ proc' = [proc EXCEPT ![p] = "bound"] /\ sock' = [sock EXCEPT ![p] = p]
  BY DEF Create
<1>2. Types /\ Types'
  BY <1>1 DEF RestartInv, Types, ProcStates
<1>3. ASSUME ~trouble, Calm PROVE Holds' /\ (Fresh' \/ Serving')
  <2> USE <1>2, <1>3 DEF Types
  <2>1. Fresh /\ p = 1
    BY <1>1 DEF Calm, Holds, Fresh
  <2>2. Holds' /\ Serving'
    BY <1>1, <2>1 DEF Fresh, Holds, Serving
  <2>3. QED
    BY <2>2
<1>4. QED
  BY <1>1, <1>2, <1>3, Keeps DEF Types

LEMMA Forks == ASSUME RestartInv, NEW p \in Procs, Hup(p) \/ Usr2(p) PROVE RestartInv'
<1> USE DEF history
<1>1. PICK q \in Procs, pc \in {"closing", "wait"} :
        /\ proc[p] = "wait" /\ proc[q] = "none"
        /\ proc' = [proc EXCEPT ![q] = "boot", ![p] = pc]
        /\ sock' = [sock EXCEPT ![q] = sock[p]]
        /\ UNCHANGED <<serve, conn, at, faults, slow, trouble>>
  BY DEF Hup, Usr2, Fork, Inherited
<1>2. Types /\ Types'
  BY <1>1 DEF RestartInv, Types, ProcStates
<1>3. ASSUME ~trouble, Calm PROVE Holds' /\ (Fresh' \/ Serving')
  <2> USE <1>2, <1>3 DEF Types
  <2>1. sock[p] = 1 /\ Serving /\ ~Fresh /\ q # 1 /\ p # q
    BY <1>1 DEF Calm, Holds, Fresh, Serving
  <2>2. proc'[q] = "boot" /\ sock'[q] = 1 /\ proc'[p] = pc /\ sock'[p] = 1
    BY <1>1, <2>1
  <2>3. \A r \in Procs \ {p, q} : proc'[r] = proc[r] /\ sock'[r] = sock[r]
    BY <1>1
  <2>4. Holds'
    BY <2>1, <2>2, <2>3 DEF Calm, Holds
  <2>5. Serving'
    BY <1>1, <2>1, <2>2, <2>3 DEF Serving
  <2>6. QED
    BY <2>4, <2>5
<1>4. QED
  BY <1>1, <1>2, <1>3, Keeps DEF Types

LEMMA Stops == ASSUME RestartInv, NEW p \in Procs, Stop(p) PROVE RestartInv'
<1> USE DEF MainGoes
<1>1. /\ proc[p] = "wait" /\ proc' = [proc EXCEPT ![p] = "closing"]
      /\ trouble' = (trouble \/ Successors(p) = {})
      /\ UNCHANGED <<serve, sock, conn, at, faults, slow>>
  BY DEF Stop
<1>2. Types /\ Types'
  BY <1>1 DEF RestartInv, Types, ProcStates
<1>3. ASSUME ~trouble', Calm PROVE Holds' /\ (Fresh' \/ Serving')
  <2> USE <1>2, <1>3 DEF Types
  <2>1. sock[p] = 1 /\ Serving /\ ~Fresh
    BY <1>1 DEF Calm, Holds, Fresh
  <2>2. PICK q \in Procs : q # p /\ sock[q] = sock[p] /\ proc[q] \in {"boot", "bound", "wait"}
    BY <1>1 DEF Successors
  <2>3. Holds' /\ Serving'
    BY <1>1, <2>1, <2>2 DEF Calm, Holds, Serving
  <2>4. QED
    BY <2>3
<1>4. QED
  BY <1>1, <1>2, <1>3, Keeps DEF Types

\* A process that no more counts as serving gives up its listener: another has it.
LEMMA Releases ==
  ASSUME RestartInv, NEW p \in Procs, NEW pc \in {"draining", "exited"},
         proc[p] \in {"closing", "draining"}, proc' = [proc EXCEPT ![p] = pc],
         sock' = [sock EXCEPT ![p] = 0], UNCHANGED at, trouble' = trouble,
         slow' \in BOOLEAN, slow => slow', conn' \in [Conns -> ConnStates],
         \A c \in Conns : conn'[c] = Reset(sock')[c] \/ (conn'[c] = "cut" /\ slow')
  PROVE  RestartInv'
<1>1. Types /\ Types'
  BY DEF RestartInv, Types, ProcStates
<1>2. ASSUME ~trouble PROVE Calm' /\ NoneCut'
  <2> USE <1>1 DEF Types
  <2>1. Calm /\ Serving /\ ~Fresh
    BY <1>2 DEF RestartInv, Calm, Fresh
  <2>2. PICK q \in Procs : sock[q] = 1 /\ proc[q] \in {"boot", "bound", "wait"}
    BY <2>1 DEF Serving
  <2>3. q # p /\ sock'[q] = 1 /\ proc'[q] = proc[q]
    BY <2>2
  <2>4. Reset(sock') = conn
    BY <2>1, <2>3, NotReset DEF Calm
  <2>5. Holds' /\ Serving'
    BY <2>1, <2>2, <2>3 DEF Calm, Holds, Serving
  <2>6. NoneTurnedAway' /\ NoneCut'
    BY <1>2, <2>1, <2>4 DEF Calm, NoneTurnedAway, RestartInv, NoneCut
  <2>7. QED
    BY <2>5, <2>6 DEF Calm
<1>3. trouble => NoneCut'
  BY DEF NoneCut
<1>4. QED
  BY <1>1, <1>2, <1>3 DEF RestartInv

LEMMA ServesOrStays ==
  ASSUME RestartInv, NEW p \in Procs, ServeStarts(p) \/ ForkFails(p) PROVE RestartInv'
<1> USE DEF MainGoes, history
<1>1. UNCHANGED <<at, slow, trouble>> /\ Types
  BY DEF ServeStarts, ForkFails, RestartInv
<1>2. CASE ServeStarts(p) /\ proc[p] = "draining"
  <2>1. /\ sock' = [sock EXCEPT ![p] = 0] /\ conn' = Reset(sock') /\ proc' = proc
    BY <1>2 DEF ServeStarts, Release
  <2>2. proc' = [proc EXCEPT ![p] = "draining"]
    BY <1>1, <1>2, <2>1 DEF Types
  <2>3. QED
    BY <1>1, <1>2, <2>1, <2>2, ResetTypes, Releases DEF Types
<1>3. CASE ForkFails(p) \/ proc[p] # "draining"
  <2>1. UNCHANGED <<proc, sock, conn>>
    BY <1>1, <1>3 DEF ServeStarts, ForkFails, Continues, Types
  <2>2. Types' /\ (Calm => Holds' /\ (Fresh' \/ Serving'))
    BY <1>1, <2>1 DEF Types, Calm, Holds, Fresh, Serving
  <2>3. QED
    BY <1>1, <2>1, <2>2, Keeps
<1>4. QED
  BY <1>2, <1>3

LEMMA ShutsDownOrEnds ==
  ASSUME RestartInv, NEW p \in Procs, Shutdown(p) \/ Exit(p) \/ TimeOut(p)
  PROVE  RestartInv'
<1> USE DEF MainGoes, history
<1>1. UNCHANGED <<at, trouble>> /\ Types
  BY DEF Shutdown, Exit, TimeOut, RestartInv
<1>2. CASE Shutdown(p)
  <2>1. /\ proc[p] = "closing" /\ proc' = [proc EXCEPT ![p] = "draining"] /\ slow' = slow
        /\ IF serve[p] THEN sock' = [sock EXCEPT ![p] = 0] /\ conn' = Reset(sock')
                       ELSE UNCHANGED <<sock, conn>>
    BY <1>2 DEF Shutdown, Release
  <2>2. CASE serve[p]
    BY <1>1, <2>1, <2>2, ResetTypes, Releases DEF Types
  <2>3. CASE ~serve[p]
    <3>1. Types'
      BY <1>1, <2>1, <2>3 DEF Types, ProcStates
    <3>2. Calm => Holds' /\ (Fresh' \/ Serving')
      BY <1>1, <2>1, <2>3 DEF Types, Calm, Holds, Fresh, Serving
    <3>3. QED
      BY <1>1, <2>1, <2>3, <3>1, <3>2, Keeps
  <2>4. QED
    BY <2>2, <2>3
<1>3. CASE Exit(p) \/ TimeOut(p)
  <2>1. /\ proc[p] = "draining" /\ proc' = [proc EXCEPT ![p] = "exited"]
        /\ sock' = [sock EXCEPT ![p] = 0]
        /\ conn' = [c \in Conns |-> IF c \in Open(p) THEN "cut" ELSE Reset(sock')[c]]
    BY <1>3 DEF Exit, TimeOut, Leave
  <2>2. slow' \in BOOLEAN /\ (slow => slow') /\ (Open(p) # {} => slow')
    BY <1>1, <1>3 DEF Exit, NoneOpen, TimeOut, Types
  <2>3. conn' \in [Conns -> ConnStates]
    BY <1>1, <2>1, ResetTypes DEF ConnStates
  <2>4. \A c \in Conns : conn'[c] = Reset(sock')[c] \/ (conn'[c] = "cut" /\ slow')
    BY <2>1, <2>2
  <2>5. QED
    BY <1>1, <2>1, <2>2, <2>3, <2>4, Releases
<1>4. QED
  BY <1>2, <1>3

LEMMA Troubles ==
  ASSUME RestartInv, NEW p \in Procs, ImportFails(p) \/ Killed(p) PROVE RestartInv'
<1>1. /\ UNCHANGED <<at, slow>> /\ trouble' = TRUE /\ Types
  BY DEF ImportFails, Killed, RestartInv
<1>2. /\ \E pc \in ProcStates : proc' = [proc EXCEPT ![p] = pc]
      /\ sock' = [sock EXCEPT ![p] = 0]
  BY DEF ImportFails, Killed, Release, Leave, MainGoes, ProcStates
<1>3. conn' \in [Conns -> ConnStates]
  <2>1. CASE ImportFails(p)
    BY <1>1, <2>1, ResetTypes DEF ImportFails, Release
  <2>2. CASE Killed(p)
    BY <1>1, <2>2, ResetTypes DEF Killed, Leave, ConnStates
  <2>3. QED
    BY <2>1, <2>2
<1>4. Types'
  BY <1>1, <1>2, <1>3 DEF Types
<1>5. QED
  BY <1>1, <1>4 DEF RestartInv, NoneCut

LEMMA Clients ==
  ASSUME RestartInv, NEW c \in Conns,
         Connect(c) \/ Respond(c) \/ \E p \in Procs : Accept(p, c)
  PROVE  RestartInv'
<1> USE DEF history
<1>1. UNCHANGED <<proc, serve, sock, slow, trouble>> /\ Types
  BY DEF Connect, Respond, Accept, RestartInv
<1>2. /\ Holds' <=> Holds
      /\ Fresh' <=> Fresh
      /\ Serving' <=> Serving
  BY <1>1 DEF Holds, Fresh, Serving
<1>3. CASE Connect(c)
  <2>1. PICK s \in {"refused", "queued"} :
          /\ conn' = [conn EXCEPT ![c] = s]
          /\ s = "refused" => Sockets(sock) = {} /\ at' = at
          /\ s = "queued" => \E t \in Sockets(sock) : at' = [at EXCEPT ![c] = t]
    BY <1>3 DEF Connect
  <2>2. Sockets(sock) \subseteq Nat
    BY <1>1 DEF Types, Sockets
  <2>3. Types'
    BY <1>1, <2>1, <2>2 DEF Types, ConnStates
  <2>4. ASSUME ~trouble PROVE NoneTurnedAway'
    <3>1. Calm /\ Serving /\ ~Fresh
      BY <1>3, <2>4 DEF RestartInv, Calm, Connect, Fresh
    <3>2. Sockets(sock) = {1}
      <4>1. \A p \in Procs : sock[p] \in {0, 1}
        BY <3>1 DEF Calm, Holds
      <4>2. \E p \in Procs : sock[p] = 1
        BY <3>1 DEF Serving
      <4>3. QED
        BY <4>1, <4>2 DEF Sockets
    <3>3. s = "queued" /\ at' = [at EXCEPT ![c] = 1]
      BY <2>1, <3>2
    <3>4. QED
      BY <1>1, <2>1, <3>1, <3>3 DEF Calm, NoneTurnedAway, Types
  <2>5. NoneCut'
    BY <1>1, <2>1 DEF RestartInv, NoneCut, Types
  <2>6. QED
    BY <1>1, <1>2, <2>3, <2>4, <2>5 DEF RestartInv, Calm
<1>4. CASE Respond(c) \/ \E p \in Procs : Accept(p, c)
  <2>1. \E s \in {"open", "served"} : conn' = [conn EXCEPT ![c] = s]
    BY <1>4 DEF Respond, Accept
  <2>2. at' = at \/ \E p \in Procs : at' = [at EXCEPT ![c] = p]
    BY <1>4 DEF Respond, Accept
  <2>3. Types'
    BY <1>1, <2>1, <2>2 DEF Types, ConnStates
  <2>4. NoneTurnedAway => NoneTurnedAway'
    BY <1>1, <2>1, <2>2 DEF NoneTurnedAway, Types
  <2>5. NoneCut'
    BY <1>1, <2>1 DEF RestartInv, NoneCut, Types
  <2>6. QED
    BY <1>1, <1>2, <2>3, <2>4, <2>5 DEF RestartInv, Calm
<1>5. QED
  BY <1>3, <1>4

LEMMA NextRestart == RestartInv /\ [RestartNext]_restartVars => RestartInv'
<1> SUFFICES ASSUME RestartInv, [RestartNext]_restartVars PROVE RestartInv'
  OBVIOUS
<1>1. CASE UNCHANGED restartVars
  BY <1>1 DEF restartVars, history, RestartInv, Types, Calm, Holds, Fresh, Serving, NoneTurnedAway,
              NoneCut
<1>2. CASE RestartNext
  BY <1>2, Starts, Creates, Forks, Stops, ServesOrStays, ShutsDownOrEnds, Troubles, Clients
     DEF RestartNext, Start, Signalled
<1>3. QED
  BY <1>1, <1>2

\* Whatever the number and order of upgrades, a client is refused or reset only after a
\* trouble, and an accepted request is cut only then or when Shutdown runs out of time:
\* forkChild hands the listener to the child before its parent lets go of it.
THEOREM AlwaysServed == RestartSpec => []NoOutage
<1>1. RestartInv => NoOutage
  BY DEF RestartInv, Calm, NoneTurnedAway, NoneCut, NoOutage
<1>2. QED
  BY <1>1, InitRestart, NextRestart, PTL DEF RestartSpec
-----------------------------------------------------------------------------
\* Whatever went wrong, no two processes hold different sockets, and one that does not
\* run, or has yet to create its listener, holds none.
OneSocket == /\ sock \in [Procs -> Procs \union {0}] /\ proc \in [Procs -> ProcStates]
             /\ \A p, q \in Procs : sock[p] # 0 /\ sock[q] # 0 => sock[p] = sock[q]
             /\ \A p \in Procs : proc[p] \in {"none", "exited", "create"} => sock[p] = 0
Connected == conn \in [Conns -> ConnStates] /\ at \in [Conns -> Procs \union {0}]
Recorded == /\ serve \in [Procs -> BOOLEAN] /\ faults \in 0..MaxFaults
            /\ slow \in BOOLEAN /\ trouble \in BOOLEAN
SocketInv == OneSocket /\ Connected /\ Recorded

\* At the start nobody has a socket.
LEMMA InitSocket == RestartInit => SocketInv
<1> SUFFICES ASSUME RestartInit PROVE SocketInv
  OBVIOUS
<1>1. OneSocket
  BY DEF RestartInit, OneSocket, ProcStates
<1>2. Connected
  BY DEF RestartInit, Connected, ConnStates
<1>3. Recorded
  <2>1. 0 \in 0..MaxFaults /\ faults = 0
    BY DEF RestartInit
  <2>2. serve \in [Procs -> BOOLEAN] /\ slow \in BOOLEAN /\ trouble \in BOOLEAN
    BY DEF RestartInit
  <2>3. QED
    BY <2>1, <2>2 DEF Recorded
<1>4. QED
  BY <1>1, <1>2, <1>3 DEF SocketInv

\* A process goes on, and keeps what it holds.
LEMMA Proceeds ==
  ASSUME OneSocket, NEW p \in Procs, NEW pc \in ProcStates, MainGoes(p, pc), UNCHANGED sock,
         pc \in {"none", "exited", "create"} => sock[p] = 0
  PROVE  OneSocket'
<1>1. proc' \in [Procs -> ProcStates] /\ \A q \in Procs : proc'[q] = IF q = p THEN pc ELSE proc[q]
  BY DEF OneSocket, MainGoes
<1>2. QED
  BY <1>1 DEF OneSocket

\* A process goes on, and releases what it holds.
LEMMA LetsGo ==
  ASSUME OneSocket, NEW p \in Procs, proc' \in [Procs -> ProcStates],
         \A q \in Procs \ {p} : proc'[q] = proc[q],
         sock' = [sock EXCEPT ![p] = 0]
  PROVE  OneSocket'
BY DEF OneSocket

\* A queue that is reset leaves states of connections.
LEMMA ResetKeeps == ASSUME Connected, NEW s PROVE Reset(s) \in [Conns -> ConnStates]
BY DEF Connected, Reset, ConnStates

\* A process ends.
LEMMA LeaveKeeps ==
  ASSUME OneSocket, Connected, NEW p \in Procs, Leave(p), UNCHANGED at
  PROVE  OneSocket' /\ Connected'
<1>1. OneSocket'
  <2>1. proc' \in [Procs -> ProcStates] /\ \A q \in Procs \ {p} : proc'[q] = proc[q]
    BY DEF Leave, MainGoes, OneSocket, ProcStates
  <2>2. QED
    BY <2>1, LetsGo DEF Leave
<1>2. Connected'
  <2>1. Reset(sock') \in [Conns -> ConnStates] /\ "cut" \in ConnStates
    BY ResetKeeps DEF ConnStates
  <2>2. conn' = [c \in Conns |-> IF c \in Open(p) THEN "cut" ELSE Reset(sock')[c]]
    BY DEF Leave
  <2>3. QED
    BY <2>1, <2>2 DEF Connected
<1>3. QED
  BY <1>1, <1>2

\* A process closes its listener.
LEMMA ReleaseKeeps ==
  ASSUME OneSocket, Connected, NEW p \in Procs, Release(p), UNCHANGED at,
         proc' \in [Procs -> ProcStates], \A q \in Procs \ {p} : proc'[q] = proc[q]
  PROVE  OneSocket' /\ Connected'
<1>1. OneSocket'
  BY LetsGo DEF Release
<1>2. Connected'
  BY ResetKeeps DEF Release, Connected
<1>3. QED
  BY <1>1, <1>2

\* The child holds what its parent holds.
LEMMA ForkKeeps ==
  ASSUME OneSocket, NEW p \in Procs, proc[p] = "wait", NEW pc \in {"wait", "closing"}, Fork(p, pc)
  PROVE  OneSocket'
<1>1. PICK q \in Procs : /\ proc[q] = "none"
                         /\ proc' = [proc EXCEPT ![q] = "boot", ![p] = pc]
                         /\ sock' = [sock EXCEPT ![q] = sock[p]]
  BY DEF Fork, Inherited
<1>2. q # p
  BY <1>1
<1>3. sock' \in [Procs -> Procs \union {0}] /\ proc' \in [Procs -> ProcStates]
  BY <1>1 DEF OneSocket, ProcStates
<1>4. \A r \in Procs : sock'[r] = IF r = q THEN sock[p] ELSE sock[r]
  BY <1>1 DEF OneSocket
<1>5. /\ proc'[q] = "boot" /\ proc'[p] = pc
      /\ \A r \in Procs \ {p, q} : proc'[r] = proc[r]
  BY <1>1, <1>2 DEF OneSocket
<1>6. QED
  BY <1>2, <1>3, <1>4, <1>5 DEF OneSocket

\* One step per group of actions.
LEMMA NextSocket == SocketInv /\ [RestartNext]_restartVars => SocketInv'
<1> SUFFICES ASSUME SocketInv, [RestartNext]_restartVars PROVE SocketInv'
  OBVIOUS
<1>0. OneSocket /\ Connected /\ Recorded
  BY DEF SocketInv
<1> USE DEF SocketInv
<1>1. ASSUME NEW p \in Procs, Start(p) PROVE SocketInv'
  <2>1. UNCHANGED <<serve, conn, at, faults, history>>
    BY <1>1 DEF Start, Import, NothingToImport, Create, CreateFails, Notify
  <2>2. Connected' /\ Recorded'
    BY <1>0, <2>1 DEF Connected, Recorded, history
  <2>3. CASE Import(p) \/ NothingToImport(p) \/ CreateFails(p) \/ Notify(p)
    <3>1. PICK pc \in {"bound", "create", "exited", "wait"} :
            MainGoes(p, pc) /\ (pc \in {"create", "exited"} => sock[p] = 0) /\ UNCHANGED sock
      BY <1>0, <2>3 DEF Import, NothingToImport, CreateFails, Notify, OneSocket
    <3>2. OneSocket'
      BY <1>0, <3>1, Proceeds DEF ProcStates
    <3>3. QED
      BY <2>2, <3>2
  <2>4. CASE Create(p)
    <3>1. /\ \A q \in Procs : sock[q] = 0
          /\ sock' = [sock EXCEPT ![p] = p] /\ MainGoes(p, "bound")
      BY <2>4 DEF Create, AddressFree, Sockets
    <3>2. OneSocket'
      BY <1>0, <3>1 DEF OneSocket, MainGoes, ProcStates
    <3>3. QED
      BY <2>2, <3>2
  <2>5. QED
    BY <1>1, <2>3, <2>4 DEF Start
<1>2. ASSUME NEW p \in Procs, ImportFails(p) PROVE SocketInv'
  <2>1. /\ Release(p) /\ MainGoes(p, "create") /\ UNCHANGED <<serve, at, slow>>
        /\ faults < MaxFaults /\ faults' = faults + 1 /\ trouble' = TRUE
    BY <1>2 DEF ImportFails
  <2>2. proc' \in [Procs -> ProcStates] /\ \A q \in Procs \ {p} : proc'[q] = proc[q]
    BY <1>0, <2>1 DEF MainGoes, OneSocket, ProcStates
  <2>3. OneSocket' /\ Connected'
    BY <1>0, <2>1, <2>2, ReleaseKeeps
  <2>4. Recorded'
    BY <1>0, <2>1 DEF Recorded
  <2>5. QED
    BY <2>3, <2>4
<1>3. ASSUME NEW p \in Procs, ServeStarts(p) PROVE SocketInv'
  <2>1. /\ Release(p) \/ UNCHANGED <<sock, conn>>
        /\ serve' = [serve EXCEPT ![p] = TRUE] /\ UNCHANGED <<proc, at, faults, history>>
    BY <1>3 DEF ServeStarts
  <2>2. OneSocket' /\ Connected'
    <3>1. CASE Release(p)
      BY <1>0, <2>1, <3>1, ReleaseKeeps DEF OneSocket
    <3>2. CASE UNCHANGED <<sock, conn>>
      BY <1>0, <2>1, <3>2 DEF OneSocket, Connected
    <3>3. QED
      BY <2>1, <3>1, <3>2
  <2>3. Recorded'
    BY <1>0, <2>1 DEF Recorded, history
  <2>4. QED
    BY <2>2, <2>3
<1>4. ASSUME NEW p \in Procs, Signalled(p) PROVE SocketInv'
  <2>1. /\ UNCHANGED <<serve, conn, at, slow>> /\ faults' \in 0..MaxFaults /\ trouble' \in BOOLEAN
    <3>1. /\ UNCHANGED <<serve, conn, at, slow>>
          /\ faults' = faults \/ (faults < MaxFaults /\ faults' = faults + 1)
      BY <1>4 DEF Signalled, Hup, Usr2, Stop, ForkFails, history
    <3>2. faults \in 0..MaxFaults
      BY <1>0 DEF Recorded
    <3>3. faults' \in 0..MaxFaults
      BY <3>1, <3>2
    <3>4. trouble' \in BOOLEAN
      BY <1>0, <1>4 DEF Signalled, Hup, Usr2, Stop, ForkFails, history, Recorded
    <3>5. QED
      BY <3>1, <3>3, <3>4
  <2>2. Connected' /\ Recorded'
    BY <1>0, <2>1 DEF Connected, Recorded
  <2>3. CASE Hup(p) \/ Usr2(p)
    BY <1>0, <2>2, <2>3, ForkKeeps DEF Hup, Usr2
  <2>4. CASE Stop(p) \/ ForkFails(p)
    <3>1. UNCHANGED sock /\ (MainGoes(p, "closing") \/ MainGoes(p, "wait"))
      BY <2>4 DEF Stop, ForkFails, Continues
    <3>2. QED
      BY <1>0, <2>2, <3>1, Proceeds DEF ProcStates
  <2>5. QED
    BY <1>4, <2>3, <2>4 DEF Signalled
<1>5. ASSUME NEW p \in Procs, Shutdown(p) PROVE SocketInv'
  <2>1. /\ Release(p) \/ UNCHANGED <<sock, conn>>
        /\ MainGoes(p, "draining") /\ UNCHANGED <<serve, at, faults, history>>
    BY <1>5 DEF Shutdown
  <2>2. proc' \in [Procs -> ProcStates] /\ \A q \in Procs \ {p} : proc'[q] = proc[q]
    BY <1>0, <2>1 DEF MainGoes, OneSocket, ProcStates
  <2>3. OneSocket' /\ Connected'
    <3>1. CASE Release(p)
      BY <1>0, <2>1, <2>2, <3>1, ReleaseKeeps
    <3>2. CASE UNCHANGED <<sock, conn>>
      BY <1>0, <2>1, <3>2, Proceeds DEF Connected, ProcStates
    <3>3. QED
      BY <2>1, <3>1, <3>2
  <2>4. Recorded'
    BY <1>0, <2>1 DEF Recorded, history
  <2>5. QED
    BY <2>3, <2>4
<1>6. ASSUME NEW p \in Procs, Exit(p) \/ TimeOut(p) \/ Killed(p) PROVE SocketInv'
  <2>1. Leave(p) /\ UNCHANGED <<serve, at>>
    BY <1>6 DEF Exit, TimeOut, Killed
  <2>2. OneSocket' /\ Connected'
    BY <1>0, <2>1, LeaveKeeps
  <2>3. faults' \in 0..MaxFaults /\ slow' \in BOOLEAN /\ trouble' \in BOOLEAN
    <3>1. faults' = faults \/ (faults < MaxFaults /\ faults' = faults + 1)
      BY <1>6 DEF Exit, TimeOut, Killed, history
    <3>2. faults \in 0..MaxFaults
      BY <1>0 DEF Recorded
    <3>3. faults' \in 0..MaxFaults
      BY <3>1, <3>2
    <3>4. slow' \in BOOLEAN /\ trouble' \in BOOLEAN
      BY <1>0, <1>6 DEF Exit, TimeOut, Killed, history, Recorded
    <3>5. QED
      BY <3>3, <3>4
  <2>4. QED
    BY <1>0, <2>1, <2>2, <2>3 DEF Recorded
<1>7. ASSUME NEW c \in Conns, Connect(c) \/ Respond(c) \/ \E p \in Procs : Accept(p, c)
      PROVE  SocketInv'
  <2>1. UNCHANGED <<proc, serve, sock, faults, history>>
    BY <1>7 DEF Connect, Respond, Accept
  <2>2. OneSocket' /\ Recorded'
    BY <1>0, <2>1 DEF OneSocket, Recorded, history
  <2>3. \E k \in ConnStates : conn' = [conn EXCEPT ![c] = k]
    BY <1>7 DEF Connect, Respond, Accept, ConnStates
  <2>4. at' = at \/ \E s \in Procs : at' = [at EXCEPT ![c] = s]
    <3>1. Sockets(sock) \subseteq Procs
      BY <1>0 DEF Sockets, OneSocket
    <3>2. QED
      BY <1>7, <3>1 DEF Connect, Respond, Accept
  <2>5. Connected'
    BY <1>0, <2>3, <2>4 DEF Connected
  <2>6. QED
    BY <2>2, <2>5
<1>8. CASE UNCHANGED restartVars
  BY <1>0, <1>8 DEF restartVars, history, OneSocket, Connected, Recorded
<1>9. QED
  BY <1>1, <1>2, <1>3, <1>4, <1>5, <1>6, <1>7, <1>8 DEF RestartNext

\* Also after kills and failed starts, all processes that have a listener have the same one
\* (forkChild, createOrImportListener), and one that has ended has none.
THEOREM OneListener == RestartSpec => []RestartTypeOK
<1>1. SocketInv => RestartTypeOK
  BY DEF SocketInv, OneSocket, Connected, Recorded, Running, RestartTypeOK
<1>2. QED
  BY <1>1, InitSocket, NextSocket, PTL DEF RestartSpec
=============================================================================
